---- MODULE Spec2Model ----
(***************************************************************************)
(* Evidence-pack retrieval (build_evidence_pack.py): keyword extraction,   *)
(* lexical scoring, topic matching and the ranked top-k selection of       *)
(* main(), as a state machine.                                             *)
(*                                                                         *)
(* Text is a sequence of one-character strings.  Scores are Python floats: *)
(* they are held exactly and added with the rounding of double arithmetic. *)
(***************************************************************************)
EXTENDS Integers, Sequences, FiniteSets, TLC

(* ------------------------------ characters ----------------------------- *)

UpperChars == <<"A","B","C","D","E","F","G","H","I","J","K","L","M",
                "N","O","P","Q","R","S","T","U","V","W","X","Y","Z">>

LowerChars == <<"a","b","c","d","e","f","g","h","i","j","k","l","m",
                "n","o","p","q","r","s","t","u","v","w","x","y","z">>

DigitChars == <<"0","1","2","3","4","5","6","7","8","9">>

Range(s) == { s[i] : i \in DOMAIN s }

\* str.lower() on the characters that have a lowercase form.
LowerOf == [ c \in Range(UpperChars) |->
               LowerChars[CHOOSE i \in DOMAIN UpperChars : UpperChars[i] = c] ]

\* str.lower() on one character.
LowerChar(c) == IF c \in DOMAIN LowerOf THEN LowerOf[c] ELSE c

\* str.lower()
Lower(s) == [ i \in DOMAIN s |-> LowerChar(s[i]) ]

AlnumChars == Range(UpperChars) \cup Range(LowerChars) \cup Range(DigitChars)

\* The regex class [a-zA-Z0-9].
IsAlnum(c) == c \in AlnumChars

\* The regex class \w (for the characters that occur here: alphanumerics and "_").
IsWordChar(c) == IsAlnum(c) \/ c = "_"

\* The regex assertion \b at offset p of s (between s[p] and s[p+1]).
WordBoundary(s, p) ==
    LET before == p >= 1 /\ p <= Len(s) /\ IsWordChar(s[p])
        after  == p + 1 >= 1 /\ p + 1 <= Len(s) /\ IsWordChar(s[p + 1])
    IN  before # after

\* s[i:j] of Python, 0-based half-open, as the 1-based SubSeq(s, i+1, j).
Slice(s, i, j) == SubSeq(s, i + 1, j)

\* str.join: the texts of seq with sep between them.
RECURSIVE Join(_, _)
Join(sep, seq) ==
    IF Len(seq) = 0 THEN << >>
    ELSE IF Len(seq) = 1 THEN seq[1]
    ELSE seq[1] \o sep \o Join(sep, Tail(seq))

\* Whether pat occurs in s starting at offset p (0-based).
MatchAt(pat, s, p) ==
    /\ p + Len(pat) <= Len(s)
    /\ \A i \in 1..Len(pat) : s[p + i] = pat[i]

\* The least element of a non-empty set of integers.
Least(S) == CHOOSE x \in S : \A y \in S : x <= y

\* The greatest element of a non-empty set of integers.
Greatest(S) == CHOOSE x \in S : \A y \in S : y <= x

\* The offset after a match of pat at q: re.findall resumes there, one further
\* on after an empty match.
Resume(pat, q) == IF Len(pat) = 0 THEN q + 1 ELSE q + Len(pat)

\* len(re.findall(re.escape(pat), s)): leftmost non-overlapping occurrences,
\* scanning from offset p; an empty pattern matches at every offset.
RECURSIVE CountPlain(_, _, _)
CountPlain(pat, s, p) ==
    LET hits == { q \in p..Len(s) : MatchAt(pat, s, q) }
    IN  IF hits = {} THEN 0
        ELSE 1 + CountPlain(pat, s, Resume(pat, Least(hits)))

\* CountWhole without the \b anchors.
CountWhole_Unanchored(pat, s, p) == CountPlain(pat, s, p)

\* len(re.findall(r'\b' + re.escape(pat) + r'\b', s)) scanning from offset p.
RECURSIVE CountWhole(_, _, _)
CountWhole(pat, s, p) ==
    LET hits == { q \in p..Len(s) : /\ WordBoundary(s, q)
                                    /\ MatchAt(pat, s, q)
                                    /\ WordBoundary(s, q + Len(pat)) }
    IN  IF hits = {} THEN 0
        ELSE 1 + CountWhole(pat, s, Resume(pat, Least(hits)))

\* pat in s  (Python substring test).
Contains(pat, s) == \E p \in 0..Len(s) : MatchAt(pat, s, p)

(* --------------------------- extract_keywords -------------------------- *)

stop_words ==
    { <<"t","h","e">>, <<"a">>, <<"a","n">>, <<"a","n","d">>,
      <<"o","r">>, <<"b","u","t">>, <<"i","s">>, <<"a","r","e">>,
      <<"w","a","s">>, <<"w","e","r","e">>, <<"b","e">>, <<"b","e","e","n">>,
      <<"b","e","i","n","g">>, <<"h","a","v","e">>, <<"h","a","s">>, <<"h","a","d">>,
      <<"d","o">>, <<"d","o","e","s">>, <<"d","i","d">>, <<"w","i","l","l">>,
      <<"w","o","u","l","d">>, <<"c","o","u","l","d">>, <<"s","h","o","u","l","d">>, <<"m","a","y">>,
      <<"m","i","g","h","t">>, <<"m","u","s","t">>, <<"s","h","a","l","l">>, <<"c","a","n">>,
      <<"t","o">>, <<"o","f">>, <<"i","n">>, <<"f","o","r">>,
      <<"o","n">>, <<"w","i","t","h">>, <<"a","t">>, <<"b","y">>,
      <<"f","r","o","m">>, <<"a","s">>, <<"i","n","t","o">>, <<"t","h","r","o","u","g","h">>,
      <<"d","u","r","i","n","g">>, <<"b","e","f","o","r","e">>, <<"a","f","t","e","r">>, <<"a","b","o","v","e">>,
      <<"b","e","l","o","w">>, <<"i","t">>, <<"i","t","s">>, <<"t","h","i","s">>,
      <<"t","h","a","t">>, <<"t","h","e","s","e">>, <<"t","h","o","s","e">>, <<"w","h","a","t">>,
      <<"w","h","i","c","h">>, <<"w","h","o">>, <<"w","h","o","m">>, <<"w","h","o","s","e">>,
      <<"w","h","e","n">>, <<"w","h","e","r","e">>, <<"w","h","y">>, <<"h","o","w">>,
      <<"a","l","l">>, <<"e","a","c","h">>, <<"e","v","e","r","y">>, <<"b","o","t","h">>,
      <<"f","e","w">>, <<"m","o","r","e">>, <<"m","o","s","t">>, <<"o","t","h","e","r">>,
      <<"s","o","m","e">>, <<"s","u","c","h">>, <<"n","o">>, <<"n","o","r">>,
      <<"n","o","t">>, <<"o","n","l","y">>, <<"o","w","n">>, <<"s","a","m","e">>,
      <<"s","o">>, <<"t","h","a","n">>, <<"t","o","o">>, <<"v","e","r","y">>,
      <<"j","u","s","t">>, <<"a","b","o","u","t">>, <<"a","n","y">>, <<"w","o","r","t","h">>,
      <<"g","e","t">>, <<"g","e","t","t","i","n","g">> }


\* The length of the longest run of [a-zA-Z0-9] characters of s from offset p.
AlnumRun(s, p) ==
    Greatest({ l \in 0..(Len(s) - p) : \A i \in 1..l : IsAlnum(s[p + i]) })

\* The lengths a match of \b[a-zA-Z0-9]+\b at offset p of s can have.
TokenEnds(s, p) ==
    IF WordBoundary(s, p)
    THEN { l \in 1..AlnumRun(s, p) : WordBoundary(s, p + l) }
    ELSE {}

\* re.findall(r'\b[a-zA-Z0-9]+\b', s) scanning from offset p: the leftmost
\* match, taken as long as the greedy + allows, then on from its end.
RECURSIVE FindTokens(_, _)
FindTokens(s, p) ==
    LET starts == { q \in p..(Len(s) - 1) : TokenEnds(s, q) # {} }
    IN  IF starts = {} THEN << >>
        ELSE LET q == Least(starts)
                 l == Greatest(TokenEnds(s, q))
             IN  << Slice(s, q, q + l) >> \o FindTokens(s, q + l)

MinKeywordLen == 2

\* extract_keywords keeping the tokens of length 2.
extract_keywords_KeepsShort(query) ==
    LET tokens == FindTokens(Lower(query), 0)
    IN  SelectSeq(tokens, LAMBDA t : t \notin stop_words /\ Len(t) >= MinKeywordLen)

\* extract_keywords(query)
extract_keywords(query) ==
    LET tokens == FindTokens(Lower(query), 0)
    IN  SelectSeq(tokens, LAMBDA t : t \notin stop_words /\ Len(t) > MinKeywordLen)

(* ------------------------------- records ------------------------------- *)

\* dict.get(key, default)
Get(d, key, default) == IF key \in DOMAIN d THEN d[key] ELSE default

\* seq[:k] of Python for any integer k (a negative k counts from the end).
SliceTo(seq, k) ==
    LET n    == Len(seq)
        stop == IF k < 0 THEN (IF n + k < 0 THEN 0 ELSE n + k)
                ELSE (IF k > n THEN n ELSE k)
    IN  SubSeq(seq, 1, stop)

\* TextOf without the fallback to text_raw.
TextOf_CleanOnly(d) == Get(d, "text_clean", << >>)

\* d.get('text_clean') or d.get('text_raw') or ''
TextOf(d) ==
    IF Get(d, "text_clean", << >>) # << >> THEN d["text_clean"]
    ELSE IF Get(d, "text_raw", << >>) # << >> THEN d["text_raw"]
    ELSE << >>

\* get_text(thread)
get_text(thread) == TextOf(thread)

MaxCommentsScored == 10

MaxCommentsEmitted == 5

\* get_comments_text dropping the comments without text before it takes the
\* first max_comments.
get_comments_text_FilterFirst(thread, max_comments) ==
    LET comments == Get(thread, "comments", << >>)
        texts    == [ i \in DOMAIN comments |-> TextOf(comments[i]) ]
    IN  SliceTo(SelectSeq(texts, LAMBDA t : t # << >>), max_comments)

\* get_comments_text(thread, max_comments)
get_comments_text(thread, max_comments) ==
    LET comments == SliceTo(Get(thread, "comments", << >>), max_comments)
        texts    == [ i \in DOMAIN comments |-> TextOf(comments[i]) ]
    IN  SelectSeq(texts, LAMBDA t : t # << >>)

\* calculate_engagement with the shares subtracted.
calculate_engagement_SharesSubtracted(metrics) ==
    Get(metrics, "reactionCount", 0)
        + Get(metrics, "commentCount", 0) * 2
        - Get(metrics, "shareCount", 0) * 3

\* calculate_engagement(metrics)
calculate_engagement(metrics) ==
    Get(metrics, "reactionCount", 0)
        + Get(metrics, "commentCount", 0) * 2
        + Get(metrics, "shareCount", 0) * 3

(* ------------------------------ score_thread --------------------------- *)

(* A Python float that occurs here is a non-negative IEEE double below 2^20   *)
(* with its last bit at 2^-54 or above.  It is held exactly as                *)
(* [neg, ip, hi, lo]: the value (-1)^neg * (ip + (hi * Limb + lo) / Limb^2),  *)
(* with Limb = 2^27.  Sums are rounded to 53 significant bits, ties to even.  *)

Limb == 134217728

FloatOf(n) == [ neg |-> FALSE, ip |-> n, hi |-> 0, lo |-> 0 ]

\* -x
FloatNeg(x) == [ x EXCEPT !.neg = ~ x.neg ]

IsZero(x) == x.ip = 0 /\ x.hi = 0 /\ x.lo = 0

\* |x| <= |y|
MagLeq(x, y) ==
    \/ x.ip < y.ip
    \/ x.ip = y.ip /\ x.hi < y.hi
    \/ x.ip = y.ip /\ x.hi = y.hi /\ x.lo <= y.lo

\* x <= y
FloatLeq(x, y) ==
    IF IsZero(x) /\ IsZero(y) THEN TRUE
    ELSE IF x.neg /\ y.neg THEN MagLeq(y, x)
    ELSE IF x.neg THEN TRUE
    ELSE IF y.neg THEN FALSE
    ELSE MagLeq(x, y)

\* x == y
FloatEq(x, y) == FloatLeq(x, y) /\ FloatLeq(y, x)

\* x > y
FloatGt(x, y) == ~ FloatLeq(x, y)

\* The number of bits of n >= 0.
RECURSIVE BitLen(_)
BitLen(n) == IF n = 0 THEN 0 ELSE 1 + BitLen(n \div 2)

RECURSIVE Pow2(_)
Pow2(n) == IF n = 0 THEN 1 ELSE 2 * Pow2(n - 1)

\* The bits of lo below the last of 53 significant bits of ip + (hi, lo).
DroppedBits(ip, hi) ==
    IF ip > 0 THEN BitLen(ip) + 1
    ELSE IF hi >= Limb \div 2 THEN 1
    ELSE 0

\* Rounding of the exact value ip + (hi, lo) to a double: nearest, ties to even.
RoundDouble(ip, hi, lo) ==
    LET p    == Pow2(DroppedBits(ip, hi))
        q    == lo \div p
        rem  == lo % p
        up   == rem * 2 > p \/ (rem * 2 = p /\ q % 2 = 1)
        lo2  == (IF up THEN q + 1 ELSE q) * p
        hi2  == IF lo2 = Limb THEN hi + 1 ELSE hi
    IN  [ neg |-> FALSE,
          ip  |-> IF hi2 = Limb THEN ip + 1 ELSE ip,
          hi  |-> IF hi2 = Limb THEN 0 ELSE hi2,
          lo  |-> IF lo2 = Limb THEN 0 ELSE lo2 ]

\* x + y in double arithmetic, for x, y >= 0.
FloatAdd(x, y) ==
    LET lo == x.lo + y.lo
        hi == x.hi + y.hi + lo \div Limb
    IN  RoundDouble(x.ip + y.ip + hi \div Limb, hi % Limb, lo % Limb)

QueryWeight == 2

TopicWeight == 1

SeedBonus == 5

\* math.log1p(e) * 0.5 for e = 0, 1, ... as <<ip, hi, lo>>; entry e + 1.
Log1pHalf ==
    << <<0, 0, 0>>, <<0, 46516319, 117062127>>, <<0, 73726622, 89785876>>, <<0, 93032639, 99906526>>,
       <<0, 108007549, 131799654>>, <<0, 120242942, 72630276>>, <<0, 130587819, 73708718>>, <<1, 5331231, 82750924>>,
       <<1, 13235517, 45354028>>, <<1, 20306141, 114644056>>, <<1, 26702299, 100457776>>, <<1, 32541534, 55474676>>,
       <<1, 37913109, 80097604>>, <<1, 42886411, 56553120>>, <<1, 47516444, 87367804>>, <<1, 51847551, 65595324>>,
       <<1, 55916000, 132775400>>, <<1, 59751837, 28198424>>, <<1, 63380227, 1232048>>, <<1, 66822461, 97488452>>,
       <<1, 70096714, 29276868>>, <<1, 73218619, 83302176>>, <<1, 76201726, 122081216>>, <<1, 79057854, 38319076>>,
       <<1, 81797371, 129381580>>, <<1, 84429429, 62942004>>, <<1, 86962140, 922176>>, <<1, 89402731, 39397516>>,
       <<1, 91757669, 121108604>>, <<1, 94032764, 70212204>>, <<1, 96233252, 38055272>>, <<1, 98363871, 48439724>>,
       <<1, 100428922, 56025924>>, <<1, 102432320, 115619800>>, <<1, 104377641, 71290644>>, <<1, 106268157, 11042824>>,
       <<1, 108106871, 15408884>>, <<1, 109896546, 118294176>>, <<1, 111639732, 35665752>>, <<1, 113338781, 80332852>>,
       <<1, 114995874, 104509752>>, <<1, 116613034, 12121268>>, <<1, 118192139, 5484612>>, <<1, 119734939, 66146572>>,
       <<1, 121243067, 42935952>>, <<1, 122718046, 104925616>>, <<1, 124161303, 105104088>>, <<1, 125574174, 21163472>>,
       <<1, 126957911, 13199708>>, <<1, 128313691, 112225980>>, <<1, 129642623, 88343548>>, <<1, 130945749, 45786404>>,
       <<1, 132224052, 8975020>>, <<1, 133478459, 117984304>>, <<2, 492121, 98039704>>, <<2, 1701323, 22241920>>,
       <<2, 2889121, 91017928>>, <<2, 4056261, 103953000>>, <<2, 5203449, 104418248>>, <<2, 6331356, 53056600>>,
       <<2, 7440619, 9658472>>, <<2, 8531844, 20899672>>, <<2, 9605608, 119062744>>, <<2, 10662463, 31284120>> >>

EmptyDict == [ x \in {} |-> 0 ]

\* math.log1p(engagement) * 0.5
EngagementBoost(engagement) ==
    LET d == Log1pHalf[engagement + 1]
    IN  [ neg |-> FALSE, ip |-> d[1], hi |-> d[2], lo |-> d[3] ]

\* The loop over query_keywords (score_thread): acc is [score, matched_keywords].
RECURSIVE QueryPass(_, _, _)
QueryPass(kws, full_text, acc) ==
    IF kws = << >> THEN acc
    ELSE LET kw    == Head(kws)
             count == CountWhole(kw, full_text, 0)
             next  == IF count > 0
                      THEN [ score |-> FloatAdd(acc.score, FloatOf(count * QueryWeight)),
                             matched_keywords |-> Append(acc.matched_keywords, kw) ]
                      ELSE acc
         IN  QueryPass(Tail(kws), full_text, next)

\* TopicPass counting whole words only.
RECURSIVE TopicPass_WholeWord(_, _, _)
TopicPass_WholeWord(kws, full_text, acc) ==
    IF kws = << >> THEN acc
    ELSE LET kw    == Head(kws)
             count == CountWhole(Lower(kw), full_text, 0)
             next  == IF count > 0
                      THEN [ score |-> FloatAdd(acc.score, FloatOf(count * TopicWeight)),
                             matched_keywords |->
                                 IF kw \notin Range(acc.matched_keywords)
                                 THEN Append(acc.matched_keywords, kw)
                                 ELSE acc.matched_keywords ]
                      ELSE acc
         IN  TopicPass_WholeWord(Tail(kws), full_text, next)

\* The loop over topic_keywords (score_thread), in the set's iteration order.
RECURSIVE TopicPass(_, _, _)
TopicPass(kws, full_text, acc) ==
    IF kws = << >> THEN acc
    ELSE LET kw    == Head(kws)
             count == CountPlain(Lower(kw), full_text, 0)
             next  == IF count > 0
                      THEN [ score |-> FloatAdd(acc.score, FloatOf(count * TopicWeight)),
                             matched_keywords |->
                                 IF kw \notin Range(acc.matched_keywords)
                                 THEN Append(acc.matched_keywords, kw)
                                 ELSE acc.matched_keywords ]
                      ELSE acc
         IN  TopicPass(Tail(kws), full_text, next)

\* full_text of score_thread
FullText(thread) ==
    LET text          == Lower(get_text(thread))
        comments_text == Lower(Join(<<" ">>, get_comments_text(thread, MaxCommentsScored)))
    IN  text \o <<" ">> \o comments_text

\* score_thread(thread, query_keywords, topic_keywords); topic_keywords is given
\* as the sequence in which the set is iterated.
score_thread(thread, query_keywords, topic_keywords) ==
    LET full_text  == FullText(thread)
        lexical    == TopicPass(topic_keywords, full_text,
                          QueryPass(query_keywords, full_text,
                              [ score |-> FloatOf(0), matched_keywords |-> << >> ]))
        engagement == calculate_engagement(Get(thread, "metrics", EmptyDict))
    IN  [ score |-> IF engagement > 0
                    THEN FloatAdd(lexical.score, EngagementBoost(engagement))
                    ELSE lexical.score,
          matched_keywords |-> lexical.matched_keywords ]

(* ----------------------- find_best_matching_topics --------------------- *)

\* A Python dict is a sequence of <<key, value>> items in insertion order.
Keys(items) == { items[i][1] : i \in DOMAIN items }

\* dict.get(key, default) on such a dict.
Lookup(items, key, default) ==
    IF key \in Keys(items)
    THEN items[CHOOSE i \in DOMAIN items : items[i][1] = key][2]
    ELSE default

\* sum(1 for x in seq if Test(x))
CountIf(seq, Test(_)) == Cardinality({ i \in DOMAIN seq : Test(seq[i]) })

\* InsertByKey placing x before the elements of equal key (not stable).
InsertByKey_Unstable(sorted, x) ==
    LET after == { i \in DOMAIN sorted : ~ FloatLeq(x[1], sorted[i][1]) }
        n     == Cardinality(after)
    IN  SubSeq(sorted, 1, n) \o << x >> \o SubSeq(sorted, n + 1, Len(sorted))

\* list.sort / sorted with a key: binary insertion as list.sort does for short
\* lists; x goes after every element whose key is <= its own (stable).
InsertByKey(sorted, x) ==
    LET after == { i \in DOMAIN sorted : FloatLeq(sorted[i][1], x[1]) }
        n     == Cardinality(after)
    IN  SubSeq(sorted, 1, n) \o << x >> \o SubSeq(sorted, n + 1, Len(sorted))

\* pairs is a sequence of <<key, item>>; the result is sorted ascending by key.
RECURSIVE SortByKey(_, _)
SortByKey(pairs, sorted) ==
    IF pairs = << >> THEN sorted
    ELSE SortByKey(Tail(pairs), InsertByKey(sorted, Head(pairs)))

\* sorted(items, key=lambda x: -Score(x))
SortDescending(items, Score(_)) ==
    LET pairs  == [ i \in DOMAIN items |-> << FloatNeg(Score(items[i])), items[i] >> ]
        sorted == SortByKey(pairs, << >>)
    IN  [ i \in DOMAIN sorted |-> sorted[i][2] ]

\* TopicOverlap comparing with the keyword phrases as written (case-sensitive).
TopicOverlap_CaseSensitive(query_keywords, topic_data) ==
    LET topic_kws == Get(topic_data, "keywords", << >>)
    IN  CountIf(query_keywords,
                LAMBDA kw : \E i \in DOMAIN topic_kws : Contains(kw, topic_kws[i]))

\* The overlap of one topic: query keywords (per occurrence) that are a
\* substring of some lowercased keyword phrase of the topic.
TopicOverlap(query_keywords, topic_data) ==
    LET topic_kws == Get(topic_data, "keywords", << >>)
    IN  CountIf(query_keywords,
                LAMBDA kw : \E i \in DOMAIN topic_kws : Contains(kw, Lower(topic_kws[i])))

\* find_best_matching_topics keeping the topics of overlap 0.
find_best_matching_topics_ZeroOverlap(query_keywords, topic_index) ==
    LET topics       == Get(topic_index, "topics", << >>)
        scored       == [ i \in DOMAIN topics |->
                            << topics[i][1], TopicOverlap(query_keywords, topics[i][2]) >> ]
        topic_scores == SelectSeq(scored, LAMBDA x : x[2] >= 0)
    IN  SortDescending(topic_scores, LAMBDA x : FloatOf(x[2]))

\* find_best_matching_topics without the sort.
find_best_matching_topics_Unsorted(query_keywords, topic_index) ==
    LET topics == Get(topic_index, "topics", << >>)
        scored == [ i \in DOMAIN topics |->
                      << topics[i][1], TopicOverlap(query_keywords, topics[i][2]) >> ]
    IN  SelectSeq(scored, LAMBDA x : x[2] > 0)

\* find_best_matching_topics(query_keywords, topic_index): <<topic_name, overlap>> pairs.
find_best_matching_topics(query_keywords, topic_index) ==
    LET topics       == Get(topic_index, "topics", << >>)
        scored       == [ i \in DOMAIN topics |->
                            << topics[i][1], TopicOverlap(query_keywords, topics[i][2]) >> ]
        topic_scores == SelectSeq(scored, LAMBDA x : x[2] > 0)
    IN  SortDescending(topic_scores, LAMBDA x : FloatOf(x[2]))

(* --------------------------- build_why_selected ------------------------ *)

\* str(n) for an integer n >= 0.
RECURSIVE FormatInt(_)
FormatInt(n) ==
    IF n < 10 THEN << DigitChars[n + 1] >>
    ELSE FormatInt(n \div 10) \o << DigitChars[(n % 10) + 1] >>

\* f"{score:.1f}" for a score >= 0: the decimal nearest the exact value, ties
\* to even.
FormatScore(score) ==
    LET lo10   == score.lo * 10
        hi10   == score.hi * 10 + lo10 \div Limb
        floor  == score.ip * 10 + hi10 \div Limb
        h      == hi10 % Limb
        l      == lo10 % Limb
        up     == \/ h > Limb \div 2
                  \/ h = Limb \div 2 /\ l > 0
                  \/ h = Limb \div 2 /\ l = 0 /\ floor % 2 = 1
        tenths == IF up THEN floor + 1 ELSE floor
    IN  FormatInt(tenths \div 10) \o <<".">> \o FormatInt(tenths % 10)

MaxKeywordsShown == 5

HighEngagement == 10

TxtMatched == <<"M","a","t","c","h","e","d"," ","k","e","y","w","o","r","d","s",":"," ">>

TxtHigh == <<"H","i","g","h"," ","e","n","g","a","g","e","m","e","n","t"," ","(">>

TxtRelevance == <<"R","e","l","e","v","a","n","c","e"," ","s","c","o","r","e",":"," ">>

\* build_why_selected with the engagement note from engagement 10 on.
build_why_selected_AtLeast(matched_keywords, engagement, score) ==
    LET kwpart  == IF matched_keywords # << >>
                   THEN << TxtMatched \o Join(<<",", " ">>,
                                              SliceTo(matched_keywords, MaxKeywordsShown)) >>
                   ELSE << >>
        engpart == IF engagement >= HighEngagement
                   THEN << TxtHigh \o FormatInt(engagement) \o <<")">> >>
                   ELSE << >>
        parts   == kwpart \o engpart \o << TxtRelevance \o FormatScore(score) >>
    IN  Join(<<";", " ">>, parts)

\* build_why_selected(matched_keywords, engagement, score)
build_why_selected(matched_keywords, engagement, score) ==
    LET kwpart  == IF matched_keywords # << >>
                   THEN << TxtMatched \o Join(<<",", " ">>,
                                              SliceTo(matched_keywords, MaxKeywordsShown)) >>
                   ELSE << >>
        engpart == IF engagement > HighEngagement
                   THEN << TxtHigh \o FormatInt(engagement) \o <<")">> >>
                   ELSE << >>
        parts   == kwpart \o engpart \o << TxtRelevance \o FormatScore(score) >>
    IN  Join(<<";", " ">>, parts)

(* --------------------------------- inputs ------------------------------ *)

MaxDocs == 2

MaxK == 3

MaxNegK == 1

\* Queries (--query).
Q_dry_cup == <<"d","r","y"," ","c","u","p">>

Q_dup == <<"D","r","y"," ","t","h","e"," ","d","r","y">>

Q_none == <<"i","s"," ","i","t">>

Q_empty == << >>

Q_scenario == <<"d","r","y"," ","n","e","e","d","l","i","n","g"," ","c","o","u","r","s","e"," ","w","o","r","t","h"," ","i","t">>

\* Topic index documents (--topic_index): one without a topics key, one with
\* five topics, one whose topics lack optional keys.
TI_none == EmptyDict

TI_full ==
    [ topics |-> <<
        << "pricing",  [ keywords |-> << <<"e","m","s">> >>, top_thread_ids |-> << "t2" >> ] >>,
        << "cupping",  [ keywords |-> << <<"c","u","p">> >>, top_thread_ids |-> << "t4" >> ] >>,
        << "needling", [ keywords |-> << <<"D","r","y"," ","C","u","p">> >>,
                         top_thread_ids |-> << "t3", "t1" >> ] >>,
        << "tools",    [ keywords |-> << <<"c","u","p","s">> >> ] >>,
        << "misc",     [ keywords |-> << <<"d","r","y","i","n","g">> >>, top_thread_ids |-> << "t5" >> ] >> >> ]

TI_min ==
    [ topics |-> <<
        << "solo", EmptyDict >>,
        << "dry",  [ keywords |-> << <<"d","r","y">> >>, top_thread_ids |-> << "t2" >> ] >> >> ]

TopicIndexFiles == { TI_none, TI_full, TI_min }

\* Topic index documents of the end-to-end scenario: one without topics, one
\* with the topic of the topic overlap example.
TI_empty == [ topics |-> << >> ]

TI_manual ==
    [ topics |-> <<
        << "manual", [ keywords |-> << <<"d","r","y"," ","n","e","e","d","l","i","n","g">>, <<"i","a","s","t","m">> >>,
                       top_thread_ids |-> << "t2" >> ] >> >> ]

\* Corpus lines (--input): thread records, and a line that is not JSON.
D1 == [ thread_id |-> "t1", url |-> "u1", text_clean |-> <<"d","r","y"," ","c","u","p">>,
        metrics |-> [ reactionCount |-> 1 ] ]

D2 == [ thread_id |-> "t2", url |-> "u2", text_clean |-> << >>,
        text_raw |-> <<"D","r","y"," ","d","r","y">>,
        comments |-> << [ text_raw |-> <<"e","m","s"," ","c","u","p">> ] >>,
        metrics |-> EmptyDict ]

D3 == [ thread_id |-> "t3" ]

D4 == [ thread_id |-> "t4", url |-> "u4", text_clean |-> <<"d","r","y","i","n","g"," ","c","u","p","s">>,
        metrics |-> [ commentCount |-> 0, shareCount |-> 1 ] ]

D5 == [ thread_id |-> "t5", url |-> "u5", text_clean |-> <<"d","r","y"," ","c","u","p">>,
        metrics |-> [ reactionCount |-> 1 ] ]

BadLine == [ malformed |-> TRUE ]

\* The three documents of the end-to-end scenario.
DocA == [ thread_id |-> "A", url |-> "uA",
          text_clean |-> <<"d","r","y"," ","n","e","e","d","l","i","n","g"," ","c","o","u","r","s","e"," ","c","o","s","t"," ","$","2","0","0">>,
          metrics |-> [ reactionCount |-> 10 ] ]

DocB == [ thread_id |-> "B", url |-> "uB",
          text_clean |-> <<"j","u","s","t"," ","a"," ","h","e","l","l","o"," ","p","o","s","t">>,
          metrics |-> [ reactionCount |-> 0 ] ]

DocC == [ thread_id |-> "C", url |-> "uC",
          text_clean |-> <<"d","r","y"," ","n","e","e","d","l","i","n","g"," ","c","e","r","t","i","f","i","c","a","t","i","o","n"," ","r","e","v","i","e","w">>,
          comments |-> << [ text_clean |-> <<"w","o","r","t","h"," ","e","v","e","r","y"," ","p","e","n","n","y"," ","a","t"," ","$","2","0","0","/","s","e","s","s","i","o","n">> ] >>,
          metrics |-> [ reactionCount |-> 50 ] ]

Lines == { D1, D2, D3, D4, D5, BadLine }

\* Sequences of at most n distinct elements of S.
SeqsUpTo(S, n) ==
    UNION { { f \in [1..m -> S] : \A i, j \in 1..m : i # j => f[i] # f[j] } : m \in 0..n }

\* The orders in which a set can be iterated.
Orders(S) == { f \in [1..Cardinality(S) -> S] : \A i, j \in DOMAIN f : i # j => f[i] # f[j] }

\* The command lines and files of a run.
\* A query of six keywords and a corpus for it: a document matching all six,
\* with six comments of which the second is empty and engagement 11; a seeded
\* document of engagement 10; a document no keyword matches.
Q_six == <<"d","r","y"," ","c","u","p"," ","w","e","t"," ","h","o","t"," ","i","c","e"," ","o","i","l">>

DocW == [ thread_id |-> "W", url |-> "uW",
          text_clean |-> <<"d","r","y"," ","c","u","p"," ","w","e","t"," ","h","o","t"," ","i","c","e"," ","o","i","l">>,
          comments |-> << [ text_clean |-> <<"o","n","e">> ], [ text_clean |-> << >> ],
                          [ text_raw |-> <<"t","h","r","e","e">> ], [ text_clean |-> <<"f","o","u","r">> ],
                          [ text_clean |-> <<"f","i","v","e">> ], [ text_clean |-> <<"s","i","x">> ] >>,
          metrics |-> [ reactionCount |-> 6, commentCount |-> 1, shareCount |-> 1 ] ]

DocE == [ thread_id |-> "t2", url |-> "u2", text_clean |-> <<"s","o"," ","d","r","y">>,
          metrics |-> [ reactionCount |-> 10 ] ]

DocZ == [ thread_id |-> "Z", url |-> "uZ", text_clean |-> <<"h","e","l","l","o">>,
          metrics |-> [ reactionCount |-> 3 ] ]

Runs ==
    [ query : { Q_dry_cup, Q_dup, Q_none }, k : (0 - MaxNegK)..MaxK,
      topic_index_file : TopicIndexFiles, input_file : SeqsUpTo(Lines, MaxDocs) ]
    \cup
    [ query : { Q_dry_cup }, k : (0 - MaxNegK)..MaxK,
      topic_index_file : { TI_none, TI_full }, input_file : { << D4, D1, D5 >> } ]
    \cup
    [ query : { Q_scenario }, k : (0 - MaxNegK)..MaxK,
      topic_index_file : { TI_empty, TI_manual }, input_file : { << DocA, DocB, DocC >> } ]
    \cup
    [ query : { Q_dry_cup, Q_dup }, k : (0 - MaxNegK)..MaxK,
      topic_index_file : { TI_empty }, input_file : { << D1, D2 >> } ]
    \cup
    [ query : { Q_empty }, k : (0 - MaxNegK)..MaxK,
      topic_index_file : { TI_full }, input_file : { << D2, D1, D4 >> } ]
    \cup
    [ query : { Q_six }, k : (0 - MaxNegK)..MaxK,
      topic_index_file : { TI_empty, TI_manual }, input_file : { << DocZ, DocE, DocW >> } ]

(* ---------------------------------- main ------------------------------- *)

VARIABLES
    pc,                 \* the statement main() is at
    args,               \* the parsed command line: query, k
    topic_index_file,   \* content of the --topic_index file
    input_file,         \* lines of the --input file
    topic_index,        \* json.load of the topic index
    query_keywords,
    matching_topics,
    topic_keywords,     \* the set
    topic_order,        \* the order in which iterating topic_keywords yields it
    topic_thread_ids,
    scored_threads,
    count,              \* lines read so far
    top_threads,
    out_file,           \* the --out file: whether it was opened, and its records
    call_pc,            \* a single call of a function: "call", "ret" ("off": none)
    call_args,          \* its arguments
    call_ret,           \* its result
    call_prev,          \* the call before it: what was changed since, args, ret
    pack_pc,            \* the statement the aggregation pass (build_pack.py) is at
    pack_input,         \* lines of its --input file
    pack_count,         \* lines it has read so far
    data_topic_scores,  \* data['topic_scores']: per topic, the (score, eng, thread) list
    pack_index          \* the topic_index.json it wrote

vars == << pc, args, topic_index_file, input_file, topic_index, query_keywords,
           matching_topics, topic_keywords, topic_order, topic_thread_ids,
           scored_threads, count, top_threads, out_file,
           call_pc, call_args, call_ret, call_prev,
           pack_pc, pack_input, pack_count, data_topic_scores, pack_index >>

\* The variables of the aggregation pass.
pack_vars == << pack_pc, pack_input, pack_count, data_topic_scores, pack_index >>

\* The variables of a single function call.
call_vars == << call_pc, call_args, call_ret, call_prev >>

\* The variables of main().
main_vars == << pc, args, topic_index_file, input_file, topic_index, query_keywords,
                matching_topics, topic_keywords, topic_order, topic_thread_ids,
                scored_threads, count, top_threads, out_file >>

NoCall == [ kind |-> "none" ]

\* No single call is under way.
CallOff ==
    /\ call_pc = "off"
    /\ call_args = EmptyDict
    /\ call_ret = EmptyDict
    /\ call_prev = NoCall

\* main() is not running.
MainOff ==
    /\ pc = "off"
    /\ args = EmptyDict
    /\ topic_index_file = EmptyDict
    /\ input_file = << >>
    /\ topic_index = EmptyDict
    /\ query_keywords = << >>
    /\ matching_topics = << >>
    /\ topic_keywords = {}
    /\ topic_order = << >>
    /\ topic_thread_ids = {}
    /\ scored_threads = << >>
    /\ count = 0
    /\ top_threads = << >>
    /\ out_file = [ opened |-> FALSE, records |-> << >> ]

\* The aggregation pass is not running.
PackOff ==
    /\ pack_pc = "off"
    /\ pack_input = << >>
    /\ pack_count = 0
    /\ data_topic_scores = << >>
    /\ pack_index = EmptyDict

Init ==
    /\ CallOff
    /\ PackOff
    /\ \E run \in Runs :
         /\ args = [ query |-> run.query, k |-> run.k ]
         /\ topic_index_file = run.topic_index_file
         /\ input_file = run.input_file
    /\ pc = "load"
    /\ topic_index = EmptyDict
    /\ query_keywords = << >>
    /\ matching_topics = << >>
    /\ topic_keywords = {}
    /\ topic_order = << >>
    /\ topic_thread_ids = {}
    /\ scored_threads = << >>
    /\ count = 0
    /\ top_threads = << >>
    /\ out_file = [ opened |-> FALSE, records |-> << >> ]

\* json.load(f) of the topic index
LoadTopicIndex ==
    /\ pc = "load"
    /\ topic_index' = topic_index_file
    /\ pc' = "keywords"
    /\ UNCHANGED << call_vars, pack_vars, args, topic_index_file, input_file, query_keywords, matching_topics,
                    topic_keywords, topic_order, topic_thread_ids, scored_threads,
                    count, top_threads, out_file >>

\* query_keywords = extract_keywords(args.query)
ExtractKeywords ==
    /\ pc = "keywords"
    /\ query_keywords' = extract_keywords(args.query)
    /\ pc' = "match"
    /\ UNCHANGED << call_vars, pack_vars, args, topic_index_file, input_file, topic_index, matching_topics,
                    topic_keywords, topic_order, topic_thread_ids, scored_threads,
                    count, top_threads, out_file >>

\* matching_topics = find_best_matching_topics(query_keywords, topic_index)
MatchTopics ==
    /\ pc = "match"
    /\ matching_topics' = find_best_matching_topics(query_keywords, topic_index)
    /\ pc' = "collect"
    /\ UNCHANGED << call_vars, pack_vars, args, topic_index_file, input_file, topic_index, query_keywords,
                    topic_keywords, topic_order, topic_thread_ids, scored_threads,
                    count, top_threads, out_file >>

MaxTopics == 3

\* CollectedFrom taking every matching topic.
CollectedFrom_AllTopics(topics, field) ==
    UNION { Range(Get(Lookup(topics, matching_topics[i][1], EmptyDict), field, << >>)) :
            i \in DOMAIN matching_topics }

\* The elements of the lists field of the first MaxTopics matching topics.
CollectedFrom(topics, field) ==
    LET top == SliceTo(matching_topics, MaxTopics)
    IN  UNION { Range(Get(Lookup(topics, top[i][1], EmptyDict), field, << >>)) :
                i \in DOMAIN top }

\* The loop over matching_topics[:3] filling topic_keywords and
\* topic_thread_ids; the set's iteration order is whatever its hashing gives.
CollectTopics ==
    /\ pc = "collect"
    /\ LET topics == IF matching_topics = << >> THEN << >> ELSE topic_index["topics"]
       IN  /\ topic_keywords' = CollectedFrom(topics, "keywords")
           /\ topic_thread_ids' = CollectedFrom(topics, "top_thread_ids")
    /\ topic_order' \in Orders(topic_keywords')
    /\ pc' = "scan"
    /\ UNCHANGED << call_vars, pack_vars, args, topic_index_file, input_file, topic_index, query_keywords,
                    matching_topics, scored_threads, count, top_threads, out_file >>

\* IsJson taking every line for a record.
IsJson_Lenient(line) == TRUE

\* json.loads(line) succeeds.
IsJson(line) == "malformed" \notin DOMAIN line

\* The final score with the seed bonus only for a thread that scored above 0.
FinalScore_BonusIfPositive(thread, scored, seed_ids) ==
    IF Get(thread, "thread_id", "") \in seed_ids /\ ~ IsZero(scored.score)
    THEN FloatAdd(scored.score, FloatOf(SeedBonus))
    ELSE scored.score

\* FinalScore with the bonus given to the ids that are not pre-selected.
FinalScore_Inverted(thread, scored, seed_ids) ==
    IF Get(thread, "thread_id", "") \notin seed_ids
    THEN FloatAdd(scored.score, FloatOf(SeedBonus))
    ELSE scored.score

\* The final score of a thread: score_thread plus the bonus for a pre-selected id.
FinalScore(thread, scored, seed_ids) ==
    IF Get(thread, "thread_id", "") \in seed_ids
    THEN FloatAdd(scored.score, FloatOf(SeedBonus))
    ELSE scored.score

\* IsRelevant with the comparison slipped to >=.
IsRelevant_NonStrict(score) == FloatLeq(FloatOf(0), score)

\* Whether a thread with this final score is kept as a candidate.
IsRelevant(score) == FloatGt(score, FloatOf(0))

\* The body of the loop over the lines: the candidates after one more thread.
Candidates(cands, thread, keywords, order, seed_ids) ==
    LET scored == score_thread(thread, keywords, order)
        score  == FinalScore(thread, scored, seed_ids)
    IN  IF IsRelevant(score)
        THEN Append(cands, [ thread |-> thread, score |-> score,
                             matched_keywords |-> scored.matched_keywords ])
        ELSE cands

\* One iteration of "for line in f": parse, score, keep.
ScoreLine ==
    /\ pc = "scan"
    /\ count < Len(input_file)
    /\ IsJson(input_file[count + 1])
    /\ scored_threads' = Candidates(scored_threads, input_file[count + 1],
                                    query_keywords, topic_order, topic_thread_ids)
    /\ count' = count + 1
    /\ UNCHANGED << call_vars, pack_vars, pc, args, topic_index_file, input_file, topic_index, query_keywords,
                    matching_topics, topic_keywords, topic_order, topic_thread_ids,
                    top_threads, out_file >>

\* json.loads raises on the line: main() ends with the exception.
BadLineAbort ==
    /\ pc = "scan"
    /\ count < Len(input_file)
    /\ ~ IsJson(input_file[count + 1])
    /\ pc' = "failed"
    /\ UNCHANGED << call_vars, pack_vars, args, topic_index_file, input_file, topic_index, query_keywords,
                    matching_topics, topic_keywords, topic_order, topic_thread_ids,
                    scored_threads, count, top_threads, out_file >>

\* scored_threads.sort(key=lambda x: -x['score']) once the file is read.
SortThreads ==
    /\ pc = "scan"
    /\ count = Len(input_file)
    /\ scored_threads' = SortDescending(scored_threads, LAMBDA x : x.score)
    /\ pc' = "truncate"
    /\ UNCHANGED << call_vars, pack_vars, args, topic_index_file, input_file, topic_index, query_keywords,
                    matching_topics, topic_keywords, topic_order, topic_thread_ids,
                    count, top_threads, out_file >>

\* TopK one short of k.
TopK_OneShort(threads, k) == SliceTo(threads, k - 1)

\* scored_threads[:k]
TopK(threads, k) == SliceTo(threads, k)

\* top_threads = scored_threads[:args.k]
Truncate ==
    /\ pc = "truncate"
    /\ top_threads' = TopK(scored_threads, args.k)
    /\ pc' = "open"
    /\ UNCHANGED << call_vars, pack_vars, args, topic_index_file, input_file, topic_index, query_keywords,
                    matching_topics, topic_keywords, topic_order, topic_thread_ids,
                    scored_threads, count, out_file >>

\* open(output_path, 'w')
OpenOutput ==
    /\ pc = "open"
    /\ out_file' = [ opened |-> TRUE, records |-> << >> ]
    /\ pc' = "write"
    /\ UNCHANGED << call_vars, pack_vars, args, topic_index_file, input_file, topic_index, query_keywords,
                    matching_topics, topic_keywords, topic_order, topic_thread_ids,
                    scored_threads, count, top_threads >>

\* The record written for one item of top_threads.
OutputRecord(item) ==
    LET thread     == item.thread
        engagement == calculate_engagement(Get(thread, "metrics", EmptyDict))
    IN  [ thread_id     |-> Get(thread, "thread_id", ""),
          url           |-> Get(thread, "url", ""),
          createdAt_iso |-> Get(thread, "createdAt_iso", ""),
          metrics       |-> Get(thread, "metrics", EmptyDict),
          post_text     |-> get_text(thread),
          comments_text |-> get_comments_text(thread, MaxCommentsEmitted),
          why_selected  |-> build_why_selected(item.matched_keywords, engagement,
                                               item.score) ]

\* One iteration of "for item in top_threads": f.write of its record.
WriteRecord ==
    /\ pc = "write"
    /\ Len(out_file.records) < Len(top_threads)
    /\ out_file' = [ out_file EXCEPT !.records =
                       Append(@, OutputRecord(top_threads[Len(@) + 1])) ]
    /\ UNCHANGED << call_vars, pack_vars, pc, args, topic_index_file, input_file, topic_index, query_keywords,
                    matching_topics, topic_keywords, topic_order, topic_thread_ids,
                    scored_threads, count, top_threads >>

\* The output is written: main() returns.
Finish ==
    /\ pc = "write"
    /\ Len(out_file.records) = Len(top_threads)
    /\ pc' = "done"
    /\ UNCHANGED << call_vars, pack_vars, args, topic_index_file, input_file, topic_index, query_keywords,
                    matching_topics, topic_keywords, topic_order, topic_thread_ids,
                    scored_threads, count, top_threads, out_file >>

Next ==
    \/ LoadTopicIndex
    \/ ExtractKeywords
    \/ MatchTopics
    \/ CollectTopics
    \/ ScoreLine
    \/ BadLineAbort
    \/ SortThreads
    \/ Truncate
    \/ OpenOutput
    \/ WriteRecord
    \/ Finish

Spec == Init /\ [][Next]_vars

(* ------------------------ single calls: score_thread ------------------- *)

MaxMetric == 1

MaxRaise == 1

T_dry == <<"d","r","y">>

T_cup == <<"c","u","p">>

\* The keyword sequences score_thread is called with, some with repeats.
KeywordSeqs ==
    { << >>, << T_dry >>, << T_cup, T_dry >>, << T_dry, T_dry >>,
      << T_dry, T_cup, T_dry >> }

\* The iteration orders of the topic keyword sets it is called with.
TopicOrders ==
    UNION { Orders(S) : S \in SUBSET { <<"d","r","y">>, <<"C","u","p","s">> } }

MetricFields == { "reactionCount", "commentCount", "shareCount" }

\* The threads it is called with: each optional field present or absent.
CallThreads ==
    { id @@ text @@ comments @@ metrics :
        id \in { [ thread_id |-> "s1" ], [ thread_id |-> "n1" ] },
        text \in { EmptyDict,
                   [ text_clean |-> <<"d","r","y"," ","c","u","p"," ","d","r","y">> ],
                   [ text_clean |-> << >>, text_raw |-> <<"D","r","y","i","n","g"," ","c","u","p","s">> ] },
        comments \in { EmptyDict,
                       [ comments |-> << [ text_clean |-> <<"c","u","p","_","d","r","y">> ],
                                         [ text_raw |-> <<"D","r","y">> ] >> ] },
        metrics \in { EmptyDict } \cup
                    { [ metrics |-> m ] : m \in [ MetricFields -> 0..MaxMetric ] } }

\* Ten comments, the first without text, and the comments that may follow them.
TenComments ==
    << [ text_clean |-> << >> ] >>
        \o [ i \in 1..8 |-> [ text_clean |-> <<"o","k">> ] ]
        \o << [ text_raw |-> <<"c","u","p">> ] >>

LateComments ==
    { << >>,
      << [ text_clean |-> <<"d","r","y">> ] >>,
      << [ text_clean |-> <<"C","u","p","s"," ","d","r","y">> ], [ text_raw |-> <<"c","u","p">> ] >> }

\* Threads with ten comments or more.
LongThreads ==
    { [ thread_id |-> "n1", comments |-> TenComments \o late ] @@ text :
        text \in { EmptyDict, [ text_clean |-> <<"d","r","y"," ","c","u","p"," ","d","r","y">> ] },
        late \in LateComments }

\* The ids the topics pre-selected, in these calls.
CallSeedIds == { "s1" }

InitScore ==
    /\ MainOff
    /\ PackOff
    /\ call_pc = "call"
    /\ call_args \in [ thread : CallThreads \cup LongThreads, query_keywords : KeywordSeqs,
                       topic_keywords : TopicOrders, seed_ids : { CallSeedIds } ]
    /\ call_ret = EmptyDict
    /\ call_prev = NoCall

\* score, matched_kws = score_thread(...) and the bonus, as in the loop of main().
ScoreCall ==
    /\ call_pc = "call"
    /\ LET scored == score_thread(call_args.thread, call_args.query_keywords,
                                  call_args.topic_keywords)
       IN  call_ret' = [ score |-> scored.score,
                         matched_keywords |-> scored.matched_keywords,
                         final |-> FinalScore(call_args.thread, scored,
                                              call_args.seed_ids) ]
    /\ call_pc' = "ret"
    /\ UNCHANGED << main_vars, pack_vars, call_args, call_prev >>

\* The next call, with the arguments changed: kind says how.
CallAgain(kind, new_args) ==
    /\ call_pc = "ret"
    /\ call_prev = NoCall
    /\ call_prev' = [ kind |-> kind, args |-> call_args, ret |-> call_ret ]
    /\ call_args' = new_args
    /\ call_pc' = "call"
    /\ UNCHANGED << main_vars, pack_vars, call_ret >>

\* The thread with one of its metrics raised by d.
WithMetricRaised(thread, f, d) ==
    LET metrics == Get(thread, "metrics", EmptyDict)
    IN  [ metrics |-> (f :> (Get(metrics, f, 0) + d)) @@ metrics ] @@ thread

\* The same thread with one count of its metrics higher.
RaiseMetric ==
    \E f \in MetricFields, d \in 1..MaxRaise :
        CallAgain("raised",
                  [ call_args EXCEPT !.thread = WithMetricRaised(@, f, d) ])

\* The same thread under the other id: pre-selected instead of not, or the reverse.
ChangeId ==
    CallAgain("other_id",
              [ call_args EXCEPT !.thread =
                  [ thread_id |-> IF @.thread_id = "s1" THEN "n1" ELSE "s1" ] @@ @ ])

\* seq without the repeats of its elements.
RECURSIVE WithoutRepeats(_)
WithoutRepeats(seq) ==
    IF seq = << >> THEN << >>
    ELSE LET front == WithoutRepeats(SubSeq(seq, 1, Len(seq) - 1))
             last  == seq[Len(seq)]
         IN  IF last \in Range(front) THEN front ELSE Append(front, last)

\* The same call with the repeated query keywords removed.
DropRepeats ==
    /\ WithoutRepeats(call_args.query_keywords) # call_args.query_keywords
    /\ CallAgain("no_repeats",
                 [ call_args EXCEPT !.query_keywords = WithoutRepeats(@) ])

\* The same thread with other comments after its first ten.
ChangeLateComments ==
    /\ Len(Get(call_args.thread, "comments", << >>)) >= 10
    /\ \E late \in LateComments :
          LET comments == SubSeq(call_args.thread.comments, 1, 10) \o late
          IN  /\ comments # call_args.thread.comments
              /\ CallAgain("late_comments",
                           [ call_args EXCEPT !.thread = [ @ EXCEPT !.comments = comments ] ])

NextScore ==
    \/ ScoreCall
    \/ RaiseMetric
    \/ ChangeId
    \/ DropRepeats
    \/ ChangeLateComments

SpecScore == InitScore /\ [][NextScore]_vars

(* ---------------------- single calls: extract_keywords ----------------- *)

MaxPieces == 3

Q_example == <<"w","h","a","t"," ","i","s"," ","t","h","e"," ","b","e","s","t"," ","c","o","u","r","s","e"," ","f","o","r"," ","d","r","y"," ","n","e","e","d","l","i","n","g">>

\* The pieces queries are put together from.
Pieces == { <<"d","r","y">>, <<"T","h","e">>, <<"i","t">>, <<"s">>, <<"9">>, <<" ">>, <<"_">>, <<"$">> }

RECURSIVE Concat(_)
Concat(seq) == IF seq = << >> THEN << >> ELSE Head(seq) \o Concat(Tail(seq))

KeywordQueries ==
    { Concat(ps) : ps \in UNION { [1..n -> Pieces] : n \in 0..MaxPieces } }
        \cup { Q_example, Q_scenario }

InitKeywords ==
    /\ MainOff
    /\ PackOff
    /\ call_pc = "call"
    /\ call_args \in [ query : KeywordQueries ]
    /\ call_ret = EmptyDict
    /\ call_prev = NoCall

\* keywords = extract_keywords(query)
KeywordsCall ==
    /\ call_pc = "call"
    /\ call_ret' = [ keywords |-> extract_keywords(call_args.query) ]
    /\ call_pc' = "ret"
    /\ UNCHANGED << main_vars, pack_vars, call_args, call_prev >>

NextKeywords == KeywordsCall

SpecKeywords == InitKeywords /\ [][NextKeywords]_vars

(* ------------------ the aggregation pass (build_pack.py) --------------- *)

MaxPackDocs == 64

\* TOPIC_CONFIG, an excerpt: two of its topics with some of their keywords.
TOPIC_CONFIG ==
    << << "pricing", [ keywords |-> << <<"c","o","s","t">>, <<"r","a","t","e">>, <<"r","a","t","e","s">> >> ] >>,
       << "legal_compliance", [ keywords |-> << <<"h","i","p","a","a">>, <<"a","d","a">> >> ] >> >>

\* get_all_text(thread): the text of the thread and of all its comments.
get_all_text(thread) ==
    LET comments == Get(thread, "comments", << >>)
        texts    == << get_text(thread) >> \o [ i \in DOMAIN comments |-> TextOf(comments[i]) ]
    IN  Join(<<" ">>, texts)

\* score_topic(text, topic_keywords)
RECURSIVE score_topic(_, _)
score_topic(text, keywords) ==
    IF text = << >> \/ keywords = << >> THEN 0
    ELSE CountPlain(Lower(Head(keywords)), Lower(text), 0)
            + score_topic(text, Tail(keywords))

\* The doubles x * 0.7 for x = 0, 1, ... and e * 0.3 for e = 0, 1, ...
TimesPoint7 ==
    <<
        <<0, 0, 0>>, <<0, 93952409, 80530636>>, <<1, 53687091, 26843544>>,
        <<2, 13421772, 107374176>>, <<2, 107374182, 53687088>>,
        <<3, 67108864, 0>>, <<4, 26843545, 80530624>>,
        <<4, 120795955, 26843536>>, <<5, 80530636, 107374176>> >>

TimesPoint3 ==
    <<
        <<0, 0, 0>>, <<0, 40265318, 53687091>>, <<0, 80530636, 107374182>>,
        <<0, 120795955, 26843544>>, <<1, 26843545, 80530636>>,
        <<1, 67108864, 0>>, <<1, 107374182, 53687088>>,
        <<2, 13421772, 107374184>>, <<2, 53687091, 26843544>>,
        <<2, 93952409, 80530632>>, <<3, 0, 0>>, <<3, 40265318, 53687088>>,
        <<3, 80530636, 107374176>>, <<3, 120795955, 26843544>>,
        <<4, 26843545, 80530640>>, <<4, 67108864, 0>>,
        <<4, 107374182, 53687088>>, <<5, 13421772, 107374176>>,
        <<5, 53687091, 26843536>>, <<5, 93952409, 80530640>>, <<6, 0, 0>>,
        <<6, 40265318, 53687088>>, <<6, 80530636, 107374176>>,
        <<6, 120795955, 26843536>>, <<7, 26843545, 80530624>> >>

\* The sort key of an entry (score, eng, thread): x[0] * 0.7 + x[1] * 0.3
CombinedScore(x) ==
    LET a == TimesPoint7[x[1] + 1]
        b == TimesPoint3[x[2] + 1]
    IN  FloatAdd([ neg |-> FALSE, ip |-> a[1], hi |-> a[2], lo |-> a[3] ],
                 [ neg |-> FALSE, ip |-> b[1], hi |-> b[2], lo |-> b[3] ])

MaxTopThreads == 50

\* scored_sorted with the slice taken before the sort.
ScoredSorted_SliceFirst(scored) ==
    SortDescending(SliceTo(scored, MaxTopThreads), CombinedScore)

\* sorted(scored, key=..., reverse=True)[:50]; the sort is stable, so entries
\* of equal key keep their order, as in a descending stable sort.
ScoredSorted(scored) ==
    SliceTo(SortDescending(scored, CombinedScore), MaxTopThreads)

\* The texts, and the documents, of the generated corpora.
PackTexts ==
    << <<"c","o","s","t">>, <<"R","a","t","e","s"," ","c","o","s","t">>, <<"h","e","l","l","o">>, <<"H","I","P","A","A"," ","r","a","t","e">>, <<"r","a","t","e","s"," ","r","a","t","e","s">>, <<"a","d","a","p","t"," ","c","o","s","t">> >>

PackDoc(i, v) ==
    [ thread_id  |-> "t" \o ToString(i),
      url        |-> "u" \o ToString(i),
      createdAt_iso |-> "2024-01-0" \o ToString((i % 9) + 1),
      text_clean |-> PackTexts[((i * v) % 6) + 1],
      metrics    |-> [ reactionCount |-> (i * (v + 2)) % 8 ] ]

\* Documents with the match in a comment only, without url, without id,
\* without metrics.
PackCommented ==
    [ thread_id |-> "x1", url |-> "ux1", metrics |-> EmptyDict, text_raw |-> <<"h","e","l","l","o">>,
      comments |-> << [ text_clean |-> << >> ], [ text_raw |-> <<"R","a","t","e","s"," ","c","o","s","t">> ] >> ]

PackNoUrl == [ thread_id |-> "x2", metrics |-> EmptyDict, text_clean |-> <<"c","o","s","t">> ]

PackNoId == [ url |-> "ux3", metrics |-> EmptyDict, text_clean |-> <<"h","e","l","l","o">> ]

PackNoMetrics == [ thread_id |-> "x4", url |-> "ux4", text_clean |-> <<"h","e","l","l","o">> ]

PackCorpora ==
    { [ i \in 1..n |-> PackDoc(i, v) ] : n \in 0..MaxPackDocs, v \in { 1, 5 } }
        \cup { << PackCommented, PackDoc(1, 1), PackNoId >>,
               << PackDoc(2, 1), PackNoUrl, PackDoc(3, 1) >>,
               << PackDoc(4, 1), BadLine, PackDoc(5, 1) >>,
               << PackDoc(6, 1), PackNoMetrics >>,
               << PackCommented >> }

InitPack ==
    /\ MainOff
    /\ CallOff
    /\ pack_pc = "scan"
    /\ pack_input \in PackCorpora
    /\ pack_count = 0
    /\ data_topic_scores = << >>
    /\ pack_index = EmptyDict

\* topic_scores[topic].append(entry) on the defaultdict(list)
AppendTo(scores, topic, entry) ==
    IF topic \in Keys(scores)
    THEN [ i \in DOMAIN scores |->
             IF scores[i][1] = topic THEN << topic, Append(scores[i][2], entry) >>
             ELSE scores[i] ]
    ELSE Append(scores, << topic, << entry >> >>)

\* The loop over TOPIC_CONFIG for one thread (process_threads), from topic n on.
RECURSIVE TopicScoring(_, _, _)
TopicScoring(scores, thread, n) ==
    IF n > Len(TOPIC_CONFIG) THEN scores
    ELSE LET score == score_topic(get_all_text(thread), TOPIC_CONFIG[n][2].keywords)
             eng   == calculate_engagement(Get(thread, "metrics", EmptyDict))
         IN  TopicScoring(IF score > 0
                          THEN AppendTo(scores, TOPIC_CONFIG[n][1], << score, eng, thread >>)
                          ELSE scores,
                          thread, n + 1)

\* One iteration of "for line in f" of process_threads.
PackScanLine ==
    /\ pack_pc = "scan"
    /\ pack_count < Len(pack_input)
    /\ IsJson(pack_input[pack_count + 1])
    /\ data_topic_scores' = TopicScoring(data_topic_scores, pack_input[pack_count + 1], 1)
    /\ pack_count' = pack_count + 1
    /\ UNCHANGED << main_vars, call_vars, pack_pc, pack_input, pack_index >>

\* json.loads raises on the line.
PackBadLine ==
    /\ pack_pc = "scan"
    /\ pack_count < Len(pack_input)
    /\ ~ IsJson(pack_input[pack_count + 1])
    /\ pack_pc' = "failed"
    /\ UNCHANGED << main_vars, call_vars, pack_input, pack_count, data_topic_scores, pack_index >>

\* The threads listed for the topic at place n of TOPIC_CONFIG.
TopThreads(n) ==
    LET sorted == ScoredSorted(Lookup(data_topic_scores, TOPIC_CONFIG[n][1], << >>))
    IN  [ i \in DOMAIN sorted |-> sorted[i][3] ]

\* t['thread_id'] and t['url'] can be read for every thread listed.
Subscriptable ==
    \A n \in DOMAIN TOPIC_CONFIG :
        \A i \in DOMAIN TopThreads(n) :
            { "thread_id", "url" } \subseteq DOMAIN TopThreads(n)[i]

\* Sections A to G of generate_outputs can be written: some thread has a
\* createdAt_iso for min() and max(), and t['metrics'] can be read for every thread.
Reportable ==
    /\ \E i \in DOMAIN pack_input : Get(pack_input[i], "createdAt_iso", "") # ""
    /\ \A i \in DOMAIN pack_input : "metrics" \in DOMAIN pack_input[i]

\* process_threads has returned; generate_outputs writes the readme, the
\* report and the csv files (sections A to G).
WriteReports ==
    /\ pack_pc = "scan"
    /\ pack_count = Len(pack_input)
    /\ Reportable
    /\ pack_pc' = "index"
    /\ UNCHANGED << main_vars, call_vars, pack_input, pack_count, data_topic_scores, pack_index >>

\* min() of no date raises ValueError, or t['metrics'] raises KeyError.
ReportError ==
    /\ pack_pc = "scan"
    /\ pack_count = Len(pack_input)
    /\ ~ Reportable
    /\ pack_pc' = "failed"
    /\ UNCHANGED << main_vars, call_vars, pack_input, pack_count, data_topic_scores, pack_index >>

\* generate_outputs, section H: topic_index.json is built and written.
WriteTopicIndex ==
    /\ pack_pc = "index"
    /\ Subscriptable
    /\ pack_index' =
          [ topics |->
              [ n \in DOMAIN TOPIC_CONFIG |->
                  << TOPIC_CONFIG[n][1],
                     [ keywords       |-> TOPIC_CONFIG[n][2].keywords,
                       top_thread_ids |-> [ i \in DOMAIN TopThreads(n) |-> TopThreads(n)[i].thread_id ],
                       top_urls       |-> [ i \in DOMAIN TopThreads(n) |-> TopThreads(n)[i].url ] ] >> ] ]
    /\ pack_pc' = "done"
    /\ UNCHANGED << main_vars, call_vars, pack_input, pack_count, data_topic_scores >>

\* A listed thread has no thread_id or no url: the subscript raises KeyError.
TopicIndexKeyError ==
    /\ pack_pc = "index"
    /\ ~ Subscriptable
    /\ pack_pc' = "failed"
    /\ UNCHANGED << main_vars, call_vars, pack_input, pack_count, data_topic_scores, pack_index >>

NextPack ==
    \/ PackScanLine
    \/ PackBadLine
    \/ WriteReports
    \/ ReportError
    \/ WriteTopicIndex
    \/ TopicIndexKeyError

SpecPack == InitPack /\ [][NextPack]_vars

(* ------------------------- properties of main() ------------------------ *)

\* top_threads holds the ranked result.
Ranked == pc \in { "open", "write", "done" }

\* scored_threads has been sorted.
Sorted == pc \in { "truncate", "open", "write", "done" }

\* A score is > 0.
Positive(x) == ~ x.neg /\ (x.ip > 0 \/ x.hi > 0 \/ x.lo > 0)

\* Score x is greater than score y (both >= 0).
Above(x, y) ==
    \/ x.ip > y.ip
    \/ x.ip = y.ip /\ x.hi > y.hi
    \/ x.ip = y.ip /\ x.hi = y.hi /\ x.lo > y.lo

IsPrefix(a, b) == Len(a) <= Len(b) /\ SubSeq(b, 1, Len(a)) = a

\* The final score main() gives a thread in this run.
ScoreOf(thread) ==
    FinalScore(thread, score_thread(thread, query_keywords, topic_order), topic_thread_ids)

\* The place of a thread in the corpus stream.
Pos(thread) == CHOOSE i \in DOMAIN input_file : input_file[i] = thread

\* The loop over the whole input file, had topic_keywords been iterated in order.
RECURSIVE ScanLines(_, _, _)
ScanLines(lines, cands, order) ==
    IF lines = << >> THEN cands
    ELSE ScanLines(Tail(lines),
                   Candidates(cands, Head(lines), query_keywords, order, topic_thread_ids),
                   order)

\* The records main() writes, had topic_keywords been iterated in order.
RecordsUnder(order) ==
    LET ranked == SortDescending(ScanLines(input_file, << >>, order), LAMBDA x : x.score)
        top    == TopK(ranked, args.k)
    IN  [ i \in DOMAIN top |-> OutputRecord(top[i]) ]

\* C1: for every k <= 0, negative k included, the ranked result is empty.
C1_NonPositiveKEmpty ==
    (Ranked /\ args.k <= 0) => top_threads = << >>

\* C2: for k1 <= k2, both at most the number of candidates, the result for k1
\* is a prefix of the result for k2 (k1 is this run's k).
C2_TruncationPrefix ==
    Ranked =>
        \A k2 \in args.k..MaxK :
            (args.k <= Len(scored_threads) /\ k2 <= Len(scored_threads))
                => IsPrefix(top_threads, TopK(scored_threads, k2))

\* C3: the records written do not depend on the order in which the
\* topic_keywords set is iterated: every iteration order gives this run's output.
C3_OutputDeterministic ==
    pc = "done" =>
        \A order \in Orders(topic_keywords) : RecordsUnder(order) = out_file.records

\* C4: the candidates are exactly the corpus documents with final score > 0,
\* only such documents are emitted, and all of them when k >= their number.
C4_CandidatesExactlyPositive ==
    /\ \A i \in DOMAIN scored_threads :
          /\ scored_threads[i].score = ScoreOf(scored_threads[i].thread)
          /\ Positive(scored_threads[i].score)
    /\ pc = "scan" =>
          [ i \in DOMAIN scored_threads |-> scored_threads[i].thread ]
              = SelectSeq(SubSeq(input_file, 1, count), LAMBDA d : Positive(ScoreOf(d)))
    /\ Ranked => \A i \in DOMAIN top_threads : top_threads[i] \in Range(scored_threads)
    /\ \A i \in DOMAIN out_file.records :
          out_file.records[i] = OutputRecord(top_threads[i])
    /\ (pc = "done" /\ args.k >= Len(scored_threads)) =>
          \A d \in Range(input_file) :
              Positive(ScoreOf(d)) =>
                  \E j \in DOMAIN out_file.records :
                      /\ out_file.records[j].thread_id = Get(d, "thread_id", "")
                      /\ out_file.records[j].post_text = get_text(d)

\* C4 witness: a finished run with k at least the number of candidates that
\* emitted two documents and discarded one whose final score is 0.
C4_Witness ==
    /\ pc = "done"
    /\ args.k >= Len(scored_threads)
    /\ Len(out_file.records) >= 2
    /\ \E d \in Range(input_file) : ~ Positive(ScoreOf(d))

\* seq is ordered by non-increasing score, equal scores in corpus order.
InRankOrder(seq) ==
    \A i, j \in DOMAIN seq :
        i < j => \/ Above(seq[i].score, seq[j].score)
                 \/ /\ seq[i].score = seq[j].score
                    /\ Pos(seq[i].thread) < Pos(seq[j].thread)

\* C5: the ranked list is ordered by non-increasing final score, documents of
\* equal score in corpus order, and it is emitted in that order.
C5_RankedByScoreStable ==
    /\ Sorted => InRankOrder(scored_threads)
    /\ Ranked => InRankOrder(top_threads)
    /\ \A i \in DOMAIN out_file.records :
          out_file.records[i].thread_id = Get(top_threads[i].thread, "thread_id", "")

\* C5 witness: a finished run that emitted two documents of equal score and a
\* third that the sort moved ahead of a document read before it.
C5_Witness ==
    /\ pc = "done"
    /\ Len(out_file.records) = Len(top_threads)
    /\ \E i, j \in DOMAIN top_threads :
          i < j /\ top_threads[i].score = top_threads[j].score
    /\ \E i, j \in DOMAIN top_threads :
          i < j /\ Pos(top_threads[i].thread) > Pos(top_threads[j].thread)

(* ---------------------- properties of score_thread -------------------- *)

\* The call returned, and it is the second call, made after the change kind.
Returned(kind) == call_pc = "ret" /\ call_prev.kind = kind

\* Of the two calls with the thread under either id: the final score with the
\* pre-selected id, and with the other.
SeededFinal ==
    IF call_args.thread.thread_id \in call_args.seed_ids
    THEN call_ret.final ELSE call_prev.ret.final

UnseededFinal ==
    IF call_args.thread.thread_id \in call_args.seed_ids
    THEN call_prev.ret.final ELSE call_ret.final

\* x - y in units of 2^-54 when x and y are that close (else 2 * Limb).
Deviation(x, y) ==
    IF x.ip - y.ip \notin -1..1 THEN 2 * Limb
    ELSE LET d == (x.ip - y.ip) * Limb + (x.hi - y.hi)
         IN  IF d \notin -1..1 THEN 2 * Limb ELSE d * Limb + (x.lo - y.lo)

Abs(n) == IF n < 0 THEN 0 - n ELSE n

\* C6 as stated: of two documents that differ only in the id, the one whose id
\* is in seed_ids has a final score exactly 5.0 higher.
C6_SeedBonusExactlyFive ==
    Returned("other_id") =>
        SeededFinal = [ UnseededFinal EXCEPT !.ip = @ + 5 ]

\* C6 amended: the seeded final score is the other score plus 5.0 up to the
\* rounding of that floating-point addition: it differs from exactly 5.0 higher
\* by at most 2^-53 of itself, and by nothing when the other score is whole.
C6_SeedBonusUpToRounding ==
    Returned("other_id") =>
        LET exact == [ UnseededFinal EXCEPT !.ip = @ + 5 ]
        IN  /\ Abs(Deviation(SeededFinal, exact)) <= 2 * SeededFinal.ip
            /\ (UnseededFinal.hi = 0 /\ UnseededFinal.lo = 0) => SeededFinal = exact

\* C6 witness: the two calls returned, with keyword matches and engagement, and
\* the addition of the bonus was rounded.
C6_Witness ==
    /\ Returned("other_id")
    /\ call_ret.matched_keywords # << >>
    /\ SeededFinal # [ UnseededFinal EXCEPT !.ip = @ + 5 ]

\* kw occurs in s as a whole word.
OccursWhole(kw, s) ==
    \E q \in 0..Len(s) :
        WordBoundary(s, q) /\ MatchAt(kw, s, q) /\ WordBoundary(s, q + Len(kw))

\* No query keyword and no topic keyword of the call matches the thread.
NoKeywordMatches ==
    LET full_text == FullText(call_args.thread)
    IN  /\ \A kw \in Range(call_args.query_keywords) : ~ OccursWhole(kw, full_text)
        /\ \A kw \in Range(call_args.topic_keywords) : ~ Contains(Lower(kw), full_text)

\* reactions + 2 * comments + 3 * shares of the thread of the call.
CallEngagement ==
    LET metrics == Get(call_args.thread, "metrics", EmptyDict)
    IN  Get(metrics, "reactionCount", 0) + 2 * Get(metrics, "commentCount", 0)
            + 3 * Get(metrics, "shareCount", 0)

\* C7: the score of score_thread and the final score are >= 0, and are 0 when
\* no keyword matches, engagement is 0 and the document is not seeded.
C7_ScoreNonNegative ==
    call_pc = "ret" =>
        /\ ~ call_ret.score.neg /\ FloatLeq(FloatOf(0), call_ret.score)
        /\ ~ call_ret.final.neg /\ FloatLeq(FloatOf(0), call_ret.final)
        /\ (NoKeywordMatches /\ CallEngagement = 0) =>
              /\ IsZero(call_ret.score)
              /\ call_args.thread.thread_id \notin call_args.seed_ids
                    => IsZero(call_ret.final)

\* C7 witness: a call returned 0 for a thread with text, query keywords to
\* look for, none of them a whole word of it, engagement 0 and an id that is
\* not seeded.
C7_Witness ==
    /\ call_pc = "ret"
    /\ get_text(call_args.thread) # << >>
    /\ call_args.query_keywords # << >>
    /\ NoKeywordMatches
    /\ CallEngagement = 0
    /\ call_args.thread.thread_id \notin call_args.seed_ids
    /\ IsZero(call_ret.final)

\* C8: with everything else fixed, a higher reactionCount, commentCount or
\* shareCount never gives a lower final score.
C8_EngagementMonotone ==
    Returned("raised") =>
        /\ FloatLeq(call_prev.ret.score, call_ret.score)
        /\ FloatLeq(call_prev.ret.final, call_ret.final)

\* C8 witness: the second call, with a count raised, returned a higher final
\* score for a thread with keyword matches.
C8_Witness ==
    /\ Returned("raised")
    /\ call_ret.matched_keywords # << >>
    /\ Above(call_ret.final, call_prev.ret.final)

\* C10: a query keyword sequence with a repeated keyword gives the same score
\* as the sequence with the repeats removed.
C10_RepeatsHarmless ==
    Returned("no_repeats") =>
        /\ call_ret.score = call_prev.ret.score
        /\ call_ret.final = call_prev.ret.final

(* -------------------- properties of extract_keywords ------------------ *)

\* The <<first, last>> places of the runs of s that Inside characters make up
\* and that no Joins character touches.
RunsOf(s, Inside(_), Joins(_)) ==
    { r \in (1..Len(s)) \X (1..Len(s)) :
        /\ r[1] <= r[2]
        /\ \A i \in r[1]..r[2] : Inside(s[i])
        /\ r[1] = 1 \/ ~ Joins(s[r[1] - 1])
        /\ r[2] = Len(s) \/ ~ Joins(s[r[2] + 1]) }

\* The runs in runs, those from place p on, as texts in order of occurrence.
RECURSIVE RunTexts(_, _, _)
RunTexts(s, runs, p) ==
    LET rest == { r \in runs : r[1] >= p }
    IN  IF rest = {} THEN << >>
        ELSE LET r == CHOOSE x \in rest : \A y \in rest : x[1] <= y[1]
             IN  << SubSeq(s, r[1], r[2]) >> \o RunTexts(s, runs, r[2] + 1)

\* Those of the tokens that are no stop word and longer than 2.
Kept(tokens) == SelectSeq(tokens, LAMBDA x : x \notin stop_words /\ Len(x) >= 3)

\* C9 as stated: the keywords are the lowercased alphanumeric tokens (the
\* maximal runs of letters and digits) of the query that are no stop word and
\* longer than 2, in order, repeats kept.
C9_AlphanumericTokens ==
    call_pc = "ret" =>
        LET s == Lower(call_args.query)
        IN  call_ret.keywords = Kept(RunTexts(s, RunsOf(s, IsAlnum, IsAlnum), 1))

\* C9 amended: the keywords are the lowercased runs of letters and digits that
\* no letter, digit or underscore adjoins (a run next to an underscore is no
\* token), that are no stop word and longer than 2, in order, repeats kept; the
\* example query yields best, course, dry, needling and the empty query nothing.
C9_WordBoundedTokens ==
    call_pc = "ret" =>
        LET s == Lower(call_args.query)
        IN  /\ call_ret.keywords = Kept(RunTexts(s, RunsOf(s, IsAlnum, IsWordChar), 1))
            /\ call_args.query = Q_example =>
                  call_ret.keywords = << <<"b","e","s","t">>, <<"c","o","u","r","s","e">>, <<"d","r","y">>, <<"n","e","e","d","l","i","n","g">> >>
            /\ call_args.query = << >> => call_ret.keywords = << >>

\* C9 witness: the call returned for a query with a stop word, a token of two
\* letters and a keyword that occurs twice.
C9_Witness ==
    /\ call_pc = "ret"
    /\ call_args.query = <<"d","r","y">> \o << " " >> \o <<"d","r","y">>
    /\ call_ret.keywords = << T_dry, T_dry >>

(* ------------------------ the end-to-end scenario ---------------------- *)

\* The run of the end-to-end scenario finished: the three documents, the
\* query "dry needling course worth it" and k = 2.
ScenarioDone ==
    /\ pc = "done"
    /\ args.query = Q_scenario
    /\ args.k = 2
    /\ input_file = << DocA, DocB, DocC >>

\* The thread ids of the records written, in order.
EmittedIds == [ i \in DOMAIN out_file.records |-> out_file.records[i].thread_id ]

\* C11: in the scenario doc C is ranked before doc A, or tied with it.
C11_ScenarioCBeforeA ==
    ScenarioDone =>
        \/ \E i, j \in DOMAIN EmittedIds :
              i < j /\ EmittedIds[i] = "C" /\ EmittedIds[j] = "A"
        \/ ScoreOf(DocC) = ScoreOf(DocA)

\* C12: in the scenario docs A and C have a final score > 0 and are the two
\* records of the result; doc B has score 0 and is no candidate.
C12_ScenarioSelection ==
    ScenarioDone =>
        /\ Positive(ScoreOf(DocA))
        /\ Positive(ScoreOf(DocC))
        /\ IsZero(ScoreOf(DocB))
        /\ Len(EmittedIds) = 2
        /\ Range(EmittedIds) = { "A", "C" }
        /\ \A i \in DOMAIN scored_threads : scored_threads[i].thread # DocB

\* C12 witness: the scenario run finished with two records written, the topic
\* of the index having matched the query.
C12_Witness ==
    /\ ScenarioDone
    /\ Len(out_file.records) = 2
    /\ matching_topics # << >>

(* ---------------- properties of find_best_matching_topics -------------- *)

\* find_best_matching_topics has returned into matching_topics.
Matched == pc \in { "collect", "scan", "truncate", "open", "write", "done", "failed" }

\* The <<name, data>> items of the topic index of the run.
IndexTopics ==
    IF "topics" \in DOMAIN topic_index THEN topic_index.topics ELSE << >>

\* kw is a substring of the lowercased form of a keyword phrase of the topic.
InSomePhrase(kw, topic_data) ==
    /\ "keywords" \in DOMAIN topic_data
    /\ \E i \in DOMAIN topic_data.keywords :
          \E q \in 0..Len(topic_data.keywords[i]) :
              MatchAt(kw, Lower(topic_data.keywords[i]), q)

\* The query keywords, counted per occurrence, that are in some phrase of the topic.
OverlapCount(topic_data) ==
    Cardinality({ i \in DOMAIN query_keywords : InSomePhrase(query_keywords[i], topic_data) })

\* The place of a topic in the topic index.
TopicPos(name) == CHOOSE i \in DOMAIN IndexTopics : IndexTopics[i][1] = name

\* C13: a topic is returned if and only if some query keyword is a substring of
\* one of its lowercased keyword phrases, with the number of such query keywords
\* (per occurrence) as overlap_count; the topic ["dry needling", "iastm"] is
\* returned with overlap_count >= 1 for a query containing "needling".
C13_TopicsWithOverlap ==
    Matched =>
        /\ \A j \in DOMAIN matching_topics :
              /\ \E i \in DOMAIN IndexTopics : IndexTopics[i][1] = matching_topics[j][1]
              /\ \A h \in DOMAIN matching_topics :
                    matching_topics[h][1] = matching_topics[j][1] => h = j
        /\ \A i \in DOMAIN IndexTopics :
              LET returned == { j \in DOMAIN matching_topics :
                                   matching_topics[j][1] = IndexTopics[i][1] }
                  overlap  == OverlapCount(IndexTopics[i][2])
              IN  /\ returned # {} <=> overlap > 0
                  /\ \A j \in returned : matching_topics[j][2] = overlap
        /\ (topic_index = TI_manual
              /\ <<"n","e","e","d","l","i","n","g">> \in Range(query_keywords)) =>
              \E j \in DOMAIN matching_topics :
                  matching_topics[j][1] = "manual" /\ matching_topics[j][2] >= 1

\* C13 witness: a query with a keyword twice gave a topic the overlap 2, and a
\* topic without overlap was not returned.
C13_Witness ==
    /\ Matched
    /\ \E j \in DOMAIN matching_topics :
          /\ matching_topics[j][2] = 2
          /\ Len(query_keywords) = 2 /\ query_keywords[1] = query_keywords[2]
    /\ Len(matching_topics) < Len(IndexTopics)

\* C14: the topics returned are in order of non-increasing overlap_count,
\* those of equal overlap_count in the order of the topic index.
C14_TopicsRankedStable ==
    Matched =>
        \A i, j \in DOMAIN matching_topics :
            i < j => \/ matching_topics[i][2] > matching_topics[j][2]
                     \/ /\ matching_topics[i][2] = matching_topics[j][2]
                        /\ TopicPos(matching_topics[i][1]) < TopicPos(matching_topics[j][1])

\* C14 witness: topics of equal overlap_count were returned, behind a topic
\* that comes after one of them in the topic index.
C14_Witness ==
    /\ Matched
    /\ \E i, j \in DOMAIN matching_topics :
          i < j /\ matching_topics[i][2] = matching_topics[j][2]
    /\ \E i, j \in DOMAIN matching_topics :
          i < j /\ TopicPos(matching_topics[i][1]) > TopicPos(matching_topics[j][1])

(* ------------------- properties of the topic collection ---------------- *)

\* The loop over matching_topics[:3] has ended.
Collected == pc \in { "scan", "truncate", "open", "write", "done", "failed" }

\* The elements of the list under field of the topic at place i of
\* matching_topics (nothing when the topic has no such list).
Contribution(i, field) ==
    LET topic_data == IndexTopics[TopicPos(matching_topics[i][1])][2]
    IN  IF field \in DOMAIN topic_data
        THEN { topic_data[field][n] : n \in DOMAIN topic_data[field] }
        ELSE {}

\* The places of the first min(3, number of matching topics) matching topics.
FirstThree == { i \in DOMAIN matching_topics : i <= 3 }

\* C15: topic_keywords is exactly the union of the keyword lists, and seed_ids
\* (topic_thread_ids) the union of the top_thread_ids lists, of the first
\* min(3, number of matching topics) matching topics; no other topic contributes.
C15_TopThreeTopicsCollected ==
    Collected =>
        /\ topic_keywords = UNION { Contribution(i, "keywords") : i \in FirstThree }
        /\ topic_thread_ids = UNION { Contribution(i, "top_thread_ids") : i \in FirstThree }
        /\ Range(topic_order) = topic_keywords
        /\ Len(topic_order) = Cardinality(topic_keywords)

\* C15 witness: four topics matched, and the keyword and the seed id of the
\* fourth were not collected, nor those of a topic without overlap.
C15_Witness ==
    /\ Collected
    /\ Len(matching_topics) = 4
    /\ Contribution(4, "keywords") # {}
    /\ Contribution(4, "keywords") \cap topic_keywords = {}
    /\ Contribution(4, "top_thread_ids") # {}
    /\ Contribution(4, "top_thread_ids") \cap topic_thread_ids = {}
    /\ Len(IndexTopics) = 5
    /\ topic_keywords # {} /\ topic_thread_ids # {}

(* ---------------------- properties of error handling ------------------- *)

\* The places of the corpus lines that are no JSON record.
BadPlaces == { i \in DOMAIN input_file : "malformed" \in DOMAIN input_file[i] }

\* C16: with an unparseable corpus line the run stops at the first such line
\* with a failure and never opens the output; the output is only opened once
\* every line has been scored and the candidates ranked.
C16_FailFastNoOutput ==
    /\ BadPlaces # {} =>
          /\ ~ out_file.opened /\ out_file.records = << >>
          /\ pc \in { "load", "keywords", "match", "collect", "scan", "failed" }
          /\ \A i \in BadPlaces : count < i
          /\ pc = "failed" => count + 1 \in BadPlaces
    /\ pc = "failed" => BadPlaces # {}
    /\ out_file.opened =>
          /\ count = Len(input_file)
          /\ pc \in { "write", "done" }
          /\ InRankOrder(scored_threads)

\* C16 witness: the run failed at an unparseable line after it had scored and
\* kept a thread, and the output was not opened.
C16_Witness ==
    /\ pc = "failed"
    /\ count = 1
    /\ Len(scored_threads) = 1
    /\ ~ out_file.opened

\* C17: with a topic index document without a topics key the run fails
\* explicitly and produces no ranked list.
C17_MissingTopicsFails ==
    "topics" \notin DOMAIN topic_index_file =>
        /\ ~ Ranked
        /\ ~ out_file.opened

\* The text of a document or comment: text_clean, else text_raw, else empty.
WithFallback(d) ==
    IF "text_clean" \in DOMAIN d /\ d.text_clean # << >> THEN d.text_clean
    ELSE IF "text_raw" \in DOMAIN d /\ d.text_raw # << >> THEN d.text_raw
    ELSE << >>

\* A count of a metrics record, 0 when it is absent.
CountOr0(metrics, field) == IF field \in DOMAIN metrics THEN metrics[field] ELSE 0

\* The thread with every optional field written out with its default.
Completed(thread) ==
    LET comments == IF "comments" \in DOMAIN thread THEN thread.comments ELSE << >>
        metrics  == IF "metrics" \in DOMAIN thread THEN thread.metrics ELSE EmptyDict
    IN  [ thread_id  |-> thread.thread_id,
          text_clean |-> WithFallback(thread),
          comments   |-> [ i \in DOMAIN comments |-> [ text_clean |-> WithFallback(comments[i]) ] ],
          metrics    |-> [ reactionCount |-> CountOr0(metrics, "reactionCount"),
                           commentCount  |-> CountOr0(metrics, "commentCount"),
                           shareCount    |-> CountOr0(metrics, "shareCount") ] ]

\* The thread lacks an optional field.
Incomplete(thread) ==
    \/ { "text_clean", "comments", "metrics" } \ DOMAIN thread # {}
    \/ /\ "metrics" \in DOMAIN thread
       /\ { "reactionCount", "commentCount", "shareCount" } \ DOMAIN thread.metrics # {}

\* C18: a document with optional fields absent is scored and emitted as the
\* document with the defaults written out (text_raw, then the empty text, for a
\* missing text_clean; no comments; 0 for a missing count), and no run fails
\* over it.
C18_MissingFieldsDefaulted ==
    /\ pc = "failed" => BadPlaces # {}
    /\ (pc \in { "truncate", "open", "write", "done" }) => count = Len(input_file)
    /\ \A i \in 1..count :
          LET thread == input_file[i]
          IN  /\ score_thread(thread, query_keywords, topic_order)
                    = score_thread(Completed(thread), query_keywords, topic_order)
              /\ ScoreOf(thread) = ScoreOf(Completed(thread))
              /\ calculate_engagement(Get(thread, "metrics", EmptyDict))
                    = Completed(thread).metrics.reactionCount
                        + 2 * Completed(thread).metrics.commentCount
                        + 3 * Completed(thread).metrics.shareCount
              /\ DOMAIN thread = { "thread_id" } =>
                    IsZero(score_thread(thread, query_keywords, topic_order).score)
    /\ \A i \in DOMAIN out_file.records :
          LET thread == top_threads[i].thread
              full   == Completed(thread)
          IN  /\ out_file.records[i].post_text = full.text_clean
              /\ out_file.records[i].comments_text
                    = SelectSeq([ n \in DOMAIN SliceTo(full.comments, MaxCommentsEmitted) |->
                                    full.comments[n].text_clean ],
                                LAMBDA x : x # << >>)
              /\ "url" \notin DOMAIN thread => out_file.records[i].url = ""
              /\ "metrics" \notin DOMAIN thread => out_file.records[i].metrics = EmptyDict

\* C18 witness: a finished run wrote the record of a thread that has nothing
\* but its id and the record of a thread whose text and comment are text_raw only.
C18_Witness ==
    /\ pc = "done"
    /\ \E i, j \in DOMAIN out_file.records :
          /\ DOMAIN top_threads[i].thread = { "thread_id" }
          /\ out_file.records[i].post_text = << >>
          /\ Incomplete(top_threads[j].thread)
          /\ WithFallback(top_threads[j].thread) # Get(top_threads[j].thread, "text_clean", << >>)
          /\ out_file.records[j].post_text # << >>
          /\ out_file.records[j].comments_text # << >>

\* The whole-word occurrences of kw in the text that is scored for the thread.
WholeWordCount(kw, thread) ==
    LET s == FullText(thread)
    IN  Cardinality({ q \in 0..Len(s) :
                        WordBoundary(s, q) /\ MatchAt(kw, s, q) /\ WordBoundary(s, q + Len(kw)) })

\* The whole-word occurrences of the keywords of the set kws in the thread.
RECURSIVE OccurrenceCount(_, _)
OccurrenceCount(kws, thread) ==
    IF kws = {} THEN 0
    ELSE LET kw == CHOOSE x \in kws : TRUE
         IN  WholeWordCount(kw, thread) + OccurrenceCount(kws \ { kw }, thread)

\* 2.0 times the occurrence count n plus the engagement boost of the thread.
QueryAndEngagement(n, thread) ==
    LET engagement == calculate_engagement(Get(thread, "metrics", EmptyDict))
    IN  FloatAdd(FloatOf(2 * n),
                 IF engagement > 0 THEN EngagementBoost(engagement) ELSE FloatOf(0))

\* C19: with no topic overlapping the query keywords the run goes on without
\* error, topic_keywords and seed_ids are empty, and the final score of every
\* document is 2.0 times the whole-word occurrences of the query keywords in it
\* plus its engagement boost.
C19_NoTopicsPureQueryScore ==
    (Collected /\ matching_topics = << >>) =>
        /\ topic_keywords = {} /\ topic_thread_ids = {}
        /\ pc = "failed" => BadPlaces # {}
        /\ \A i \in 1..count :
              ScoreOf(input_file[i])
                  = QueryAndEngagement(OccurrenceCount(Range(query_keywords), input_file[i]),
                                       input_file[i])

(* ------------------- properties of matched_keywords -------------------- *)

\* The matched_keywords that the description of score_thread gives for the
\* call: the query keywords that occur as whole words, each once, in query
\* order, then the topic keywords that occur and are not yet listed.
MatchedExpected ==
    LET full_text == FullText(call_args.thread)
        query     == SelectSeq(WithoutRepeats(call_args.query_keywords),
                               LAMBDA kw : OccursWhole(kw, full_text))
        topic     == SelectSeq(call_args.topic_keywords,
                               LAMBDA kw : /\ Contains(Lower(kw), full_text)
                                           /\ kw \notin Range(query))
    IN  query \o topic

\* C20: matched_keywords holds no keyword twice, the matched query keywords
\* first and in query order, then the matched topic keywords not yet present,
\* also for a query keyword sequence with a repeated keyword.
C20_MatchedKeywordsDistinct ==
    call_pc = "ret" =>
        /\ \A i, j \in DOMAIN call_ret.matched_keywords :
              call_ret.matched_keywords[i] = call_ret.matched_keywords[j] => i = j
        /\ call_ret.matched_keywords = MatchedExpected

(* -------------------- properties of the score formula ------------------ *)

\* The sum, over the keyword sequence, of the whole-word occurrences of each
\* keyword in the text scored for the thread.
RECURSIVE QuerySum(_, _)
QuerySum(kws, thread) ==
    IF kws = << >> THEN 0
    ELSE WholeWordCount(Head(kws), thread) + QuerySum(Tail(kws), thread)

\* The occurrences of pat in s as a substring (pat does not overlap itself).
SubstringCount(pat, s) == Cardinality({ q \in 0..Len(s) : MatchAt(pat, s, q) })

\* The sum, over the topic keywords, of the substring occurrences of each
\* lowercased keyword in the text scored for the thread.
RECURSIVE TopicSum(_, _)
TopicSum(kws, thread) ==
    IF kws = << >> THEN 0
    ELSE SubstringCount(Lower(Head(kws)), FullText(thread)) + TopicSum(Tail(kws), thread)

\* C21: the score is 2.0 times the whole-word occurrences summed over the query
\* keyword sequence, plus 1.0 times the substring occurrences summed over the
\* lowercased topic keywords, plus 0.5 * ln(1 + e), e = reactions + 2 * comments
\* + 3 * shares, the boost being 0 for e = 0.
C21_ScoreFormula ==
    call_pc = "ret" =>
        LET thread == call_args.thread
            n      == 2 * QuerySum(call_args.query_keywords, thread)
                        + 1 * TopicSum(call_args.topic_keywords, thread)
            e      == CallEngagement
            boost  == IF e = 0 THEN FloatOf(0) ELSE EngagementBoost(e)
        IN  call_ret.score = FloatAdd(FloatOf(n), boost)

\* C21 witness: a call returned for a thread with a whole-word match of a query
\* keyword, a match of a capitalised topic keyword, a match of a topic keyword
\* inside a word, and engagement.
C21_Witness ==
    /\ call_pc = "ret"
    /\ QuerySum(call_args.query_keywords, call_args.thread) > 0
    /\ \E i \in DOMAIN call_args.topic_keywords :
          /\ call_args.topic_keywords[i] # Lower(call_args.topic_keywords[i])
          /\ SubstringCount(Lower(call_args.topic_keywords[i]), FullText(call_args.thread)) > 0
    /\ \E i \in DOMAIN call_args.topic_keywords :
          SubstringCount(Lower(call_args.topic_keywords[i]), FullText(call_args.thread))
              > WholeWordCount(Lower(call_args.topic_keywords[i]), call_args.thread)
    /\ CallEngagement > 0

\* C27: a keyword that is a query keyword and a topic keyword adds 3.0 to the
\* score for each of its whole-word occurrences (2.0 and 1.0), and is once in
\* matched_keywords.
C27_SharedKeywordThreePerOccurrence ==
    call_pc = "ret" =>
        \A kw \in Range(call_args.query_keywords) \cap Range(call_args.topic_keywords) :
            LET thread  == call_args.thread
                others  == SelectSeq(call_args.query_keywords, LAMBDA x : x # kw)
                topics  == SelectSeq(call_args.topic_keywords, LAMBDA x : x # kw)
                inside  == SubstringCount(kw, FullText(thread)) - WholeWordCount(kw, thread)
                e       == CallEngagement
                boost   == IF e = 0 THEN FloatOf(0) ELSE EngagementBoost(e)
                rest    == 2 * QuerySum(others, thread) + TopicSum(topics, thread)
            IN  /\ call_ret.score
                      = FloatAdd(FloatOf(rest + 3 * WholeWordCount(kw, thread) + inside), boost)
                /\ WholeWordCount(kw, thread) > 0 =>
                      Cardinality({ i \in DOMAIN call_ret.matched_keywords :
                                       call_ret.matched_keywords[i] = kw }) = 1

(* --------------------- properties of the comment cap ------------------- *)

\* C22: two documents that differ only in the comments at position 11 or
\* later get the same score and the same matched_keywords.
C22_LateCommentsIgnored ==
    Returned("late_comments") =>
        /\ call_ret.score = call_prev.ret.score
        /\ call_ret.matched_keywords = call_prev.ret.matched_keywords
        /\ call_ret.final = call_prev.ret.final

\* C22 witness: the second call returned for the thread with an eleventh
\* comment that holds a query keyword the first ten comments and the body lack.
C22_Witness ==
    /\ Returned("late_comments")
    /\ Len(call_args.thread.comments) > 10
    /\ Len(call_prev.args.thread.comments) = 10
    /\ \E kw \in Range(call_args.query_keywords) :
          /\ OccursWhole(kw, Lower(WithFallback(call_args.thread.comments[11])))
          /\ ~ OccursWhole(kw, FullText(call_args.thread))
    /\ call_ret.matched_keywords # << >>


(* --------------------- properties of the aggregation pass -------------- *)

\* The text of a document and of all its comments, lower-cased.
PackAllText(d) ==
    LET comments == Get(d, "comments", << >>)
    IN  Lower(Join(<<" ">>, << WithFallback(d) >> \o [ i \in DOMAIN comments |-> WithFallback(comments[i]) ]))

\* The lexical topic score of document d for the topic at place n: the
\* occurrences of the topic's keywords in the text.
RECURSIVE LexicalSum(_, _)
LexicalSum(kws, text) ==
    IF kws = << >> THEN 0
    ELSE SubstringCount(Lower(Head(kws)), text) + LexicalSum(Tail(kws), text)

LexicalScore(n, d) == LexicalSum(TOPIC_CONFIG[n][2].keywords, PackAllText(d))

PackEngagement(d) ==
    LET metrics == Get(d, "metrics", EmptyDict)
    IN  CountOr0(metrics, "reactionCount") + 2 * CountOr0(metrics, "commentCount")
            + 3 * CountOr0(metrics, "shareCount")

\* Ten times 0.7 * lexical_topic_score + 0.3 * engagement.
RankTimes10(n, d) == 7 * LexicalScore(n, d) + 3 * PackEngagement(d)

\* The places of the corpus whose document qualifies for the topic at place n.
Qualifying(n) == { i \in DOMAIN pack_input : LexicalScore(n, pack_input[i]) > 0 }

IndexEntry(n) == Lookup(pack_index.topics, TOPIC_CONFIG[n][1], EmptyDict)

\* C23: in the topic index written by the aggregation pass, every topic's
\* top_thread_ids holds at most 50 documents (all the qualifying ones when
\* there are no more than 50), only documents of lexical topic score > 0 for
\* the topic, in non-increasing order of 0.7 * score + 0.3 * engagement, no
\* document left out ranks above a listed one, and top_urls has the same
\* length with top_urls[i] the url of the document top_thread_ids[i].
C23_TopicIndexTopFifty ==
    pack_pc = "done" =>
        \A n \in DOMAIN TOPIC_CONFIG :
            LET ids   == IndexEntry(n).top_thread_ids
                urls  == IndexEntry(n).top_urls
                qual  == Qualifying(n)
                rank  == [ i \in qual |-> RankTimes10(n, pack_input[i]) ]
                place == [ j \in DOMAIN ids |->
                             CHOOSE i \in DOMAIN pack_input \cup { 0 } :
                                 \/ i = 0 /\ \A h \in qual : Get(pack_input[h], "thread_id", "") # ids[j]
                                 \/ i \in qual /\ Get(pack_input[i], "thread_id", "") = ids[j] ]
            IN  /\ Len(ids) <= MaxTopThreads
                /\ Len(ids) = Least({ MaxTopThreads, Cardinality(qual) })
                /\ Len(urls) = Len(ids)
                /\ \A j \in DOMAIN ids : place[j] \in qual
                /\ \A j, h \in DOMAIN ids : j # h => place[j] # place[h]
                /\ \A j \in DOMAIN ids : urls[j] = Get(pack_input[place[j]], "url", "")
                /\ \A j, h \in DOMAIN ids : j < h => rank[place[j]] >= rank[place[h]]
                /\ \A i \in qual :
                       (\A j \in DOMAIN ids : place[j] # i)
                           => \A j \in DOMAIN ids : rank[i] <= rank[place[j]]

\* An index was written for a corpus with more than 50 qualifying documents
\* and a document that does not qualify, and the list is not in corpus order.
C23_Witness ==
    /\ pack_pc = "done"
    /\ \E n \in DOMAIN TOPIC_CONFIG :
          /\ Cardinality(Qualifying(n)) > MaxTopThreads
          /\ \E i \in DOMAIN pack_input : i \notin Qualifying(n)
          /\ Len(IndexEntry(n).top_thread_ids) = MaxTopThreads
          /\ \E i \in Qualifying(n) :
                /\ \A h \in Qualifying(n) : i <= h
                /\ IndexEntry(n).top_thread_ids[1] # pack_input[i].thread_id


(* ----------------------- properties of the records ---------------------- *)

\* The engagement score of a document, read from its metrics.
EngagementOf(thread) ==
    LET metrics == Get(thread, "metrics", EmptyDict)
    IN  CountOr0(metrics, "reactionCount") + 2 * CountOr0(metrics, "commentCount")
            + 3 * CountOr0(metrics, "shareCount")

\* The non-empty texts of all the comments of a document, in order.
NonEmptyCommentTexts(thread) ==
    LET comments == Get(thread, "comments", << >>)
    IN  SelectSeq([ n \in DOMAIN comments |-> WithFallback(comments[n]) ],
                  LAMBDA x : x # << >>)

\* The last n characters of s.
Suffix(s, n) == SubSeq(s, Len(s) - n + 1, Len(s))

\* C24: the why_selected string of every emitted record lists the first 5
\* entries of matched_keywords at most (and has no keyword part when there is
\* none), holds the engagement note exactly when the engagement score is
\* greater than 10, and ends with the final score, seed bonus included, to one
\* decimal place; the record carries at most 5 comment texts, none empty, the
\* first of the document's non-empty ones.
C24_WhySelected ==
    \A i \in DOMAIN out_file.records :
        LET item   == top_threads[i]
            thread == item.thread
            why    == out_file.records[i].why_selected
            mk     == item.matched_keywords
            shown  == SubSeq(mk, 1, Least({ Len(mk), 5 }))
            eng    == EngagementOf(thread)
            final  == TxtRelevance \o FormatScore(ScoreOf(thread))
            texts  == out_file.records[i].comments_text
        IN  /\ mk = << >> => ~ Contains(TxtMatched, why)
            /\ mk # << >> => IsPrefix(TxtMatched \o Join(<<",", " ">>, shown) \o <<";", " ">>, why)
            /\ Contains(TxtHigh, why) <=> eng > 10
            /\ eng > 10 => Contains(<<";", " ">> \o TxtHigh \o FormatInt(eng) \o <<")", ";", " ">>, why)
                              \/ IsPrefix(TxtHigh \o FormatInt(eng) \o <<")", ";", " ">>, why)
            /\ Len(why) >= Len(final)
            /\ Suffix(why, Len(final)) = final
            /\ why[Len(why) - 1] = "."
            /\ why[Len(why)] \in Range(DigitChars)
            /\ Len(why) = (IF mk = << >> THEN 0 ELSE Len(TxtMatched \o Join(<<",", " ">>, shown)) + 2)
                            + (IF eng > 10 THEN Len(TxtHigh \o FormatInt(eng)) + 3 ELSE 0)
                            + Len(final)
            /\ Len(texts) <= 5
            /\ IsPrefix(texts, NonEmptyCommentTexts(thread))
            /\ \A n \in DOMAIN texts : texts[n] # << >>

\* A finished run wrote a record of a document with more than five matched
\* keywords, engagement above 10 and a sixth comment, an empty one among the
\* first five; a record of a seeded document of engagement 10; and a record
\* without matched keywords.
C24_Witness ==
    /\ pc = "done"
    /\ \E i, j, h \in DOMAIN out_file.records :
          /\ Len(top_threads[i].matched_keywords) > 5
          /\ EngagementOf(top_threads[i].thread) > 10
          /\ Len(Get(top_threads[i].thread, "comments", << >>)) > 5
          /\ Len(out_file.records[i].comments_text) < 5
          /\ ~ Contains(top_threads[i].matched_keywords[6], out_file.records[i].why_selected)
          /\ EngagementOf(top_threads[j].thread) = 10
          /\ Get(top_threads[j].thread, "thread_id", "") \in topic_thread_ids
          /\ top_threads[h].matched_keywords = << >>


(* ----------------------- properties of seeded documents ----------------- *)

\* The document at place i of the corpus is seeded in this run.
SeededAt(i) ==
    /\ "thread_id" \in DOMAIN input_file[i]
    /\ input_file[i].thread_id \in topic_thread_ids

\* The number of documents of the corpus ranked above the one at place i: the
\* candidates of greater final score, and those of equal score read before it.
RankedAbove(i) ==
    Cardinality({ h \in DOMAIN input_file :
                    /\ Positive(ScoreOf(input_file[h]))
                    /\ \/ Above(ScoreOf(input_file[h]), ScoreOf(input_file[i]))
                       \/ ScoreOf(input_file[h]) = ScoreOf(input_file[i]) /\ h < i })

\* C25: every document read whose thread_id is in seed_ids has a final score
\* of at least 5.0 whatever its text and metrics, so it is a candidate, and
\* when the run has finished it is emitted whenever k is greater than the
\* number of documents ranked above it.
C25_SeededAlwaysCandidate ==
    \A i \in 1..count :
        SeededAt(i) =>
            /\ FloatLeq(FloatOf(SeedBonus), ScoreOf(input_file[i]))
            /\ pc \in { "scan", "truncate" } =>
                  \E j \in DOMAIN scored_threads :
                      /\ scored_threads[j].thread = input_file[i]
                      /\ scored_threads[j].score = ScoreOf(input_file[i])
            /\ (pc = "done" /\ args.k > RankedAbove(i)) =>
                  /\ Len(out_file.records) > RankedAbove(i)
                  /\ top_threads[RankedAbove(i) + 1].thread = input_file[i]
                  /\ out_file.records[RankedAbove(i) + 1].thread_id = input_file[i].thread_id

\* A finished run emitted a seeded document that has neither text nor metrics,
\* with the final score 5.0, below another document.
C25_Witness ==
    /\ pc = "done"
    /\ \E i \in 1..count :
          /\ SeededAt(i)
          /\ DOMAIN input_file[i] = { "thread_id" }
          /\ ScoreOf(input_file[i]) = FloatOf(SeedBonus)
          /\ RankedAbove(i) > 0
          /\ args.k > RankedAbove(i)
          /\ out_file.records[RankedAbove(i) + 1].thread_id = input_file[i].thread_id


(* ----------------------- properties of keyword-less queries ------------- *)

\* The documents of docs with engagement e, e - 1, ..., 1, in this order and
\* within one engagement in the order of docs.
RECURSIVE ByEngagementFrom(_, _)
ByEngagementFrom(docs, e) ==
    IF e <= 0 THEN << >>
    ELSE SelectSeq(docs, LAMBDA d : EngagementOf(d) = e) \o ByEngagementFrom(docs, e - 1)

\* The documents read with engagement > 0, ranked by engagement.
RankedByEngagement ==
    LET docs == SubSeq(input_file, 1, count)
    IN  ByEngagementFrom(docs, Greatest({ 0 } \cup { EngagementOf(docs[i]) : i \in DOMAIN docs }))

\* C26: when the query yields no keywords, no topic is matched whatever the
\* topic index, topic_keywords and seed_ids are empty, every document's final
\* score is its engagement boost alone, the ranked candidates are exactly the
\* documents with engagement > 0 in the order of their engagement, the result
\* is a prefix of them (all of them when k is at least their number, none
\* when there is none), and the run fails on no other ground than a line of
\* the corpus that is not JSON.
C26_NoKeywordsEngagementOnly ==
    extract_keywords(args.query) = << >> =>
        /\ pc \notin { "load", "keywords" } => query_keywords = << >>
        /\ pc \notin { "load", "keywords", "match" } => matching_topics = << >>
        /\ pc \notin { "load", "keywords", "match", "collect" } =>
              /\ topic_keywords = {}
              /\ topic_thread_ids = {}
              /\ \A i \in 1..count :
                    ScoreOf(input_file[i]) =
                        IF EngagementOf(input_file[i]) > 0
                        THEN EngagementBoost(EngagementOf(input_file[i]))
                        ELSE FloatOf(0)
              /\ \A j \in DOMAIN scored_threads :
                    /\ scored_threads[j].matched_keywords = << >>
                    /\ EngagementOf(scored_threads[j].thread) > 0
        /\ pc = "failed" => BadPlaces # {}
        /\ Sorted =>
              [ j \in DOMAIN scored_threads |-> scored_threads[j].thread ] = RankedByEngagement
        /\ Ranked =>
              /\ IsPrefix([ j \in DOMAIN top_threads |-> top_threads[j].thread ], RankedByEngagement)
              /\ args.k >= Len(RankedByEngagement) => Len(top_threads) = Len(RankedByEngagement)
        /\ pc = "done" =>
              /\ Len(out_file.records) = Len(top_threads)
              /\ \A j \in DOMAIN out_file.records :
                    out_file.records[j].thread_id = Get(top_threads[j].thread, "thread_id", "")

\* A finished run of a query without keywords, over a topic index with
\* topics, left out a document whose engagement is 0 and emitted two
\* documents, the one read later first.
C26_Witness ==
    /\ pc = "done"
    /\ extract_keywords(args.query) = << >>
    /\ "topics" \in DOMAIN topic_index_file
    /\ topic_index_file.topics # << >>
    /\ \E i \in 1..count : EngagementOf(input_file[i]) = 0
    /\ Len(out_file.records) = 2
    /\ \E i, h \in 1..count :
          /\ i < h
          /\ top_threads[1].thread = input_file[h]
          /\ top_threads[2].thread = input_file[i]
          /\ EngagementOf(input_file[h]) > EngagementOf(input_file[i])

====
